---- MODULE Spec2Model ----
(***************************************************************************)
(* Entity synchronizer of ThreeSceneService (three-scene.service.ts) and   *)
(* the StoreService operations that feed it.                               *)
(*                                                                         *)
(* Scene-graph objects (THREE.Group anchors) and material sets are modelled*)
(* as heap cells named by the entity id and a number; an object stays in   *)
(* the heap as long as anything (a map, a parent group, a load callback's  *)
(* closure, currentCarParams) still refers to it.  Every object, material  *)
(* set and load carries a mark `fresh`: it was made by the handler that    *)
(* ran last.                                                               *)
(***************************************************************************)
EXTENDS Integers, Sequences, FiniteSets, TLC

\* ------------------------------------------------------------------------
\* Bounds of the model
\* ------------------------------------------------------------------------
\* most model loads in flight at once
MaxPending == 2
\* most frames of the render loop in a run
MaxFrames == 1
\* most frames of a drive
MaxDriveFrames == 3
\* most frames of a run through the sections
MaxExplodeFrames == 3
\* most clips the audio loader is loading at a time
MaxSoundLoads == 2
\* most frames of a run through the modes
MaxStageFrames == 2
\* most hotspots the fleet has at a time
MaxPoints == 2
\* most frames of a drive with steering
MaxSteerFrames == 2

\* ------------------------------------------------------------------------
\* Values
\* ------------------------------------------------------------------------
VehicleIds == {"lfa-next", "lf-z"}
EnvIds == {"e1"}
ObjIds == {"o1"}
\* a falsy url: modelUrl undefined, url ''
NoUrl == ""
Urls == {"car.glb", "alt.glb"}
\* the model files a vehicle can be given
CarUrls == {"car.glb"}
\* the value of Map.get for a missing key / an unset reference
NoObj == << >>
\* activeEnvironmentId: null
NoId == "null"
\* the value of fleet[i] || fleet[0] on an empty fleet; it has no field id
Undefined == [undefined |-> TRUE]
\* the ids of DEFAULT_CONFIG.sections, in order
Sections == << "showroom", "drive", "cockpit", "engineering", "walk" >>

\* Lengths, speeds and factors are counted in thousandths, time in
\* milliseconds.
Unit == 1000
\* Math.max(-20, Math.min(80, speed))
MinSpeed == -20 * Unit
MaxSpeed == 80 * Unit
\* mapBounds = 190
MapBounds == 190 * Unit

\* the largest steering input, 0.6 rad
MaxSteer == 600

\* steering is interpolated at delta * 5
SteerRate == 5
\* speed += throttle * 30 * delta
Acceleration == 30
\* speed *= 0.98, in hundredths
Drag == 98
\* the rates of the interpolations: lerp(speed, 0, delta * 2),
\* lerp(explodeFactor, target, delta * 3), lerp(position, target, delta * 4)
BrakeRate == 2
ExplodeRate == 3
LineupRate == 4
\* explodeFactor > 0.01
SnapEpsilon == 10

\* camera.position.set(6, 2, 7) and controls.target.set(0, 0.5, 0)
ShowroomCamera == << 6000, 2000, 7000 >>
ShowroomTarget == << 0, 500, 0 >>
\* moveToInterior: camera.position.set(0.35, 1.1, 0.1), target (0, 1.1, 0)
InteriorCamera == << 350, 1100, 100 >>
InteriorTarget == << 0, 1100, 0 >>
\* enterWalkMode: character.position [-5, 0, 5] plus (0, 2.5, -4), charRotation 0
WalkCamera == << -5000, 2500, 1000 >>
\* DEFAULT_CONFIG.character.position: x and z
CharacterPosition == << -5000, 5000 >>
\* Math.PI / 2 - 0.02 and Math.PI, in thousandths of a radian
ShowroomPolarAngle == 1551
Pi == 3142
\* new OrbitControls(camera, canvas) as init() configures it; enabled and
\* enablePan are true in a new OrbitControls
NewControls ==
    [enabled |-> TRUE, maxPolarAngle |-> ShowroomPolarAngle, minDistance |-> 1000,
     maxDistance |-> 25000, enablePan |-> TRUE, target |-> ShowroomTarget]

\* colour, metalness, roughness (in tenths) of DEFAULT_CONFIG.fleet[0] and [1]
Paints == { [color |-> "#FF9900", metalness |-> 6, roughness |-> 1],
            [color |-> "#0055ff", metalness |-> 8, roughness |-> 2] }

\* the paints a vehicle is configured with: lfa-next either, lf-z its own
PaintsOf(id) ==
    IF id = "lfa-next" THEN Paints ELSE { p \in Paints : p.color = "#0055ff" }

CarConfigs == { c \in [id : VehicleIds, modelUrl : CarUrls \cup {NoUrl},
                       color : { p.color : p \in Paints },
                       metalness : { p.metalness : p \in Paints },
                       roughness : { p.roughness : p \in Paints }] :
                  [color |-> c.color, metalness |-> c.metalness, roughness |-> c.roughness]
                      \in PaintsOf(c.id) }

EnvTransforms == { [scale |-> 1, position |-> <<0, 0, 0>>],
                   [scale |-> 2, position |-> <<5, 0, -3>>] }

EnvironmentItems == { [id |-> i, url |-> u, scale |-> t.scale, position |-> t.position] :
                      i \in EnvIds, u \in Urls \cup {NoUrl}, t \in EnvTransforms }

ObjTransforms == { [position |-> <<0, 0, 0>>, rotation |-> <<0, 0, 0>>, scale |-> <<1, 1, 1>>],
                   [position |-> <<2, 0, 1>>, rotation |-> <<0, 1, 0>>, scale |-> <<2, 2, 2>>] }

SceneObjects == { [id |-> i, url |-> u, position |-> t.position,
                   rotation |-> t.rotation, scale |-> t.scale] :
                  i \in ObjIds, u \in Urls, t \in ObjTransforms }

\* ------------------------------------------------------------------------
\* Helpers
\* ------------------------------------------------------------------------
Range(f) == { f[k] : k \in DOMAIN f }

MapSet(m, k, v) == [x \in DOMAIN m \cup {k} |-> IF x = k THEN v ELSE m[x]]

MapDelete(m, ks) == [x \in DOMAIN m \ ks |-> m[x]]

MapGet(m, k) == IF k \in DOMAIN m THEN m[k] ELSE NoObj

Max(a, b) == IF a > b THEN a ELSE b

Min(a, b) == IF a < b THEN a ELSE b

Abs(a) == IF a < 0 THEN -a ELSE a

\* the quotient rounded toward zero
TruncDiv(a, b) == IF a >= 0 THEN a \div b ELSE -((-a) \div b)

Ids(seq) == { seq[i].id : i \in DOMAIN seq }

DistinctIds(seq) == \A i, j \in DOMAIN seq : seq[i].id = seq[j].id => i = j

\* Array.prototype.find(c => c.id === id): index of the first match, 0 if none
FindIndex(seq, id) ==
    IF id \in Ids(seq)
    THEN CHOOSE i \in DOMAIN seq : seq[i].id = id /\ \A j \in DOMAIN seq : seq[j].id = id => i <= j
    ELSE 0

\* a new object for the entity id: objects are told apart by the name they are
\* given (the id) and a number, the least one no object of that name carries
NewObj(used, id) ==
    LET n == Cardinality(used)
        k == CHOOSE x \in 0..n :
                 << id, x >> \notin used /\ \A y \in 0..n : << id, y >> \notin used => x <= y
    IN << id, k >>

\* ------------------------------------------------------------------------
\* State
\* ------------------------------------------------------------------------
VARIABLES
    config,              \* StoreService.config: fleet, activeCarIndex, environments, sceneObjects
    loadingCount,        \* StoreService.loadingCount
    carMap,              \* vehicle id -> anchor
    fleetGroup,          \* children of fleetGroup
    carObjs,             \* vehicle anchors: name, userData.modelUrl, content
    materialsMap,        \* vehicle id -> material set (instance and paint parameters)
    currentCarParams,    \* the anchor whose parts and wheels are tracked
    envObjectMap,        \* environment id -> anchor
    wallModelGroup,      \* children of wallModelGroup
    envObjs,             \* environment anchors: name, scale, position, content
    sceneObjectMap,      \* scene-object id -> anchor
    sceneObjectsGroup,   \* children of sceneObjectsGroup
    sceneObjs,           \* scene-object anchors: name, userData.url, transform, content
    pending,             \* loads in flight: kind, id and anchor the callbacks close over
    lastOp,              \* the handler that ran last (history)
    isInitialized,       \* ThreeSceneService.isInitialized: init() has run
    activeSectionIndex,  \* StoreService.activeSectionIndex
    isMenuOpen,          \* StoreService.isMenuOpen
    thrown,              \* the functions that threw in the handler that ran last
    speed,               \* ThreeSceneService.speed
    posZ,                \* position.z of the active vehicle's anchor
    explodeFactor,       \* ThreeSceneService.explodeFactor
    partY,               \* vehicle id -> position.y of a body part under its anchor
    origY,               \* currentCarParams.originalPositions of the tracked body part
    frame,               \* the frames animate() has run
    input,               \* delta, keys and joystick of the frame that ran last
    isEngineRunning,     \* ThreeSceneService.isEngineRunning
    engineSound,         \* the engine loop: buffer, isPlaying, onEnded, source
    ignitionSound,       \* the ignition one-shot: buffer, isPlaying, onEnded, source
    currentEngineSoundId, \* the vehicle whose engine clip is loaded
    audioLoads,          \* clips the audio loader is loading, in the order they were asked for
    controls,            \* OrbitControls: enabled, limits, enablePan, target
    camera,              \* camera.position: the place an entry action put it, moved since or not
    visible,             \* .visible of menuGroup, showroomGroup, fleetGroup, charGroup, hotspotGroup
    carVisible,          \* vehicle id -> .visible of its anchor
    hotspotGroup,        \* the vehicle hotspotGroup hangs under and its markers
    steering,            \* ThreeSceneService.steering
    carAngle,            \* ThreeSceneService.carAngle, in thousandths of a radian
    posX,                \* position.x of the active vehicle's anchor
    charRotation,        \* ThreeSceneService.charRotation, in thousandths of a radian
    charPos,             \* charGroup.position: x and z
    server,              \* what the server holds: the saved settings and the cars
    pollResponse         \* the poll under way and the response it is waiting for

\* the fields of the scene service that the synchronizer and the loads write
sceneVars == << loadingCount, carMap, fleetGroup, carObjs, materialsMap,
                currentCarParams, envObjectMap, wallModelGroup, envObjs,
                sceneObjectMap, sceneObjectsGroup, sceneObjs, pending >>

\* the view: section and menu
viewVars == << activeSectionIndex, isMenuOpen >>

\* what the render loop writes
tickVars == << speed, posZ, explodeFactor, partY, origY, frame, input >>

\* what the audio binder writes
audioVars == << isEngineRunning, engineSound, ignitionSound, currentEngineSoundId, audioLoads >>

\* what the entry actions of the sections and the menu write
stageVars == << controls, camera, visible, carVisible, hotspotGroup, steering, carAngle, posX,
               charRotation, charPos >>

\* the server and the poll
netVars == << server, pollResponse >>

vars == << config, sceneVars, lastOp, isInitialized, viewVars, thrown, tickVars, audioVars,
           stageVars, netVars >>

\* an object, material set or load that the handler now starting did not make
Aged(r) == [r EXCEPT !.fresh = FALSE]

\* the scene service's fields as one value, threaded through the handlers
Scene ==
    [ loadingCount |-> loadingCount, carMap |-> carMap, fleetGroup |-> fleetGroup,
      carObjs |-> [o \in DOMAIN carObjs |-> Aged(carObjs[o])],
      materialsMap |-> [k \in DOMAIN materialsMap |-> Aged(materialsMap[k])],
      matInsts |-> { materialsMap[k].inst : k \in DOMAIN materialsMap },
      currentCarParams |-> currentCarParams, envObjectMap |-> envObjectMap,
      wallModelGroup |-> wallModelGroup,
      envObjs |-> [o \in DOMAIN envObjs |-> Aged(envObjs[o])],
      sceneObjectMap |-> sceneObjectMap, sceneObjectsGroup |-> sceneObjectsGroup,
      sceneObjs |-> [o \in DOMAIN sceneObjs |-> Aged(sceneObjs[o])],
      pending |-> { Aged(l) : l \in pending } ]

EmptyMap == [x \in {} |-> NoObj]

EmptyScene ==
    [ loadingCount |-> 0, carMap |-> EmptyMap, fleetGroup |-> {},
      carObjs |-> EmptyMap, materialsMap |-> EmptyMap, matInsts |-> {},
      currentCarParams |-> [group |-> NoObj],
      envObjectMap |-> EmptyMap, wallModelGroup |-> {}, envObjs |-> EmptyMap,
      sceneObjectMap |-> EmptyMap, sceneObjectsGroup |-> {},
      sceneObjs |-> EmptyMap, pending |-> {} ]

\* ------------------------------------------------------------------------
\* StoreService
\* ------------------------------------------------------------------------
\* activeCar = fleet[activeCarIndex] || fleet[0]   (activeCarIndex is 0-based)
activeCar(c) ==
    IF c.activeCarIndex + 1 \in DOMAIN c.fleet THEN c.fleet[c.activeCarIndex + 1]
    ELSE IF c.fleet # << >> THEN c.fleet[1]
    ELSE Undefined

\* activeSection = sections[activeSectionIndex]
activeSection(index) == [id |-> Sections[index + 1]]

\* activeEnvironment = environments.find(e => e.id === activeEnvironmentId)
activeEnvironment(c) ==
    IF c.activeEnvironmentId \in Ids(c.environments)
    THEN c.environments[FindIndex(c.environments, c.activeEnvironmentId)]
    ELSE Undefined

setCarIndex(c, index) == [c EXCEPT !.activeCarIndex = index]

\* store.updateActiveCar(updates): fleet[activeCarIndex] = { ...old, ...updates }
\* on a copy of the fleet. For an index past the end, old is undefined and
\* spreads to nothing, and the assignment lengthens the array up to the index,
\* the elements in between being holes, which read as undefined
updateActiveCar(c, updates) ==
    LET i == c.activeCarIndex + 1
        old == IF i \in DOMAIN c.fleet THEN c.fleet[i] ELSE << >>
        new == [f \in DOMAIN old \cup DOMAIN updates |->
                   IF f \in DOMAIN updates THEN updates[f] ELSE old[f]]
    IN [c EXCEPT !.fleet = [j \in 1..Max(Len(@), i) |->
                               IF j = i THEN new
                               ELSE IF j \in DOMAIN @ THEN @[j] ELSE Undefined]]

addEnvironment(c, env) ==
    [c EXCEPT !.environments = Append(@, env), !.activeEnvironmentId = env.id]

setActiveEnvironment(c, id) == [c EXCEPT !.activeEnvironmentId = id]

updateEnvironment(c, id, updates) ==
    [c EXCEPT !.environments = [i \in DOMAIN @ |-> IF @[i].id = id THEN updates ELSE @[i]]]

\* removeEnvironment that leaves activeEnvironmentId as it is
removeEnvironment_keepsSelection(c, id) ==
    [c EXCEPT !.environments = SelectSeq(@, LAMBDA e : e.id # id)]

removeEnvironment(c, id) ==
    LET newEnvs == SelectSeq(c.environments, LAMBDA e : e.id # id)
    IN [c EXCEPT !.environments = newEnvs,
                 !.activeEnvironmentId =
                     IF @ = id THEN (IF newEnvs # << >> THEN newEnvs[1].id ELSE NoId) ELSE @]

addSceneObject(c, obj) == [c EXCEPT !.sceneObjects = Append(@, obj)]

updateSceneObject(c, id, updates) ==
    [c EXCEPT !.sceneObjects = [i \in DOMAIN @ |-> IF @[i].id = id THEN updates ELSE @[i]]]

removeSceneObject(c, id) ==
    [c EXCEPT !.sceneObjects = SelectSeq(@, LAMBDA o : o.id # id)]

incrementLoading(S) == [S EXCEPT !.loadingCount = @ + 1]

\* a decrement that counts the load twice
decrementLoading_twice(S) == [S EXCEPT !.loadingCount = Max(0, @ - 2)]

decrementLoading(S) == [S EXCEPT !.loadingCount = Max(0, @ - 1)]

\* ------------------------------------------------------------------------
\* Fleet logic
\* ------------------------------------------------------------------------
\* basePaint.clone(): color 0xffffff, metalness 0.7, roughness 0.2
getOrCreateMaterials(S, carId) ==
    IF carId \in DOMAIN S.materialsMap THEN S
    ELSE LET m == NewObj(S.matInsts, carId)
         IN [S EXCEPT !.materialsMap = MapSet(@, carId,
                          [inst |-> m, color |-> "#ffffff", metalness |-> 7, roughness |-> 2,
                           fresh |-> TRUE]),
                      !.matInsts = @ \cup {m}]

\* analyzeCarStructure: the tracked parts and wheels become those under group
analyzeCarStructure(S, group) ==
    [S EXCEPT !.currentCarParams = [group |-> group]]

buildProceduralCar(S, group, carConfig) ==
    LET S1 == getOrCreateMaterials(S, carConfig.id)
    IN [S1 EXCEPT !.carObjs[group].content = "procedural"]

\* createCarGroup taking the branch of the loader whatever modelUrl is
createCarGroup_alwaysLoads(S, c, carConfig) ==
    LET group == NewObj(DOMAIN S.carObjs, carConfig.id)
        S1 == [S EXCEPT !.carObjs = MapSet(@, group,
                            [name |-> carConfig.id, modelUrl |-> carConfig.modelUrl,
                             content |-> "empty", fresh |-> TRUE]),
                        !.carMap = MapSet(@, carConfig.id, group),
                        !.fleetGroup = @ \cup {group}]
    IN [incrementLoading(S1) EXCEPT !.pending = @ \cup
           {[kind |-> "car", id |-> carConfig.id, obj |-> group, fresh |-> TRUE]}]

\* createCarGroup up to the point where the load is handed to the loader
createCarGroup(S, c, carConfig) ==
    LET group == NewObj(DOMAIN S.carObjs, carConfig.id)
        S1 == [S EXCEPT !.carObjs = MapSet(@, group,
                            [name |-> carConfig.id, modelUrl |-> carConfig.modelUrl,
                             content |-> "empty", fresh |-> TRUE]),
                        !.carMap = MapSet(@, carConfig.id, group),
                        !.fleetGroup = @ \cup {group}]
    IN IF carConfig.modelUrl # NoUrl
       THEN [incrementLoading(S1) EXCEPT !.pending = @ \cup
                {[kind |-> "car", id |-> carConfig.id, obj |-> group, fresh |-> TRUE]}]
       ELSE LET S2 == buildProceduralCar(S1, group, carConfig)
            IN IF activeCar(c).id = carConfig.id THEN analyzeCarStructure(S2, group) ELSE S2

\* the removal test without the comparison of modelUrl
shouldRemove_goneOnly(S, fleet, id) == FindIndex(fleet, id) = 0

\* the removal test answering yes for every live id
shouldRemove_always(S, fleet, id) == TRUE

\* the removal test of syncFleet for one live id
shouldRemove(S, fleet, id) ==
    LET i == FindIndex(fleet, id)
    IN \/ i = 0
       \/ S.carObjs[S.carMap[id]].modelUrl # fleet[i].modelUrl

\* removeCar without fleetGroup.remove(group)
removeCar_keepsChild(S, id) ==
    [S EXCEPT !.carMap = MapDelete(@, {id}),
              !.materialsMap = MapDelete(@, {id})]

\* the body of `if (shouldRemove)`: detach, forget, dispose the material set
removeCar(S, id) ==
    [S EXCEPT !.fleetGroup = @ \ {S.carMap[id]},
              !.carMap = MapDelete(@, {id}),
              !.materialsMap = MapDelete(@, {id})]

RECURSIVE removeCars(_, _, _)
removeCars(S, fleet, ids) ==
    IF ids = {} THEN S
    ELSE LET id == CHOOSE x \in ids : TRUE
             S1 == IF shouldRemove(S, fleet, id) THEN removeCar(S, id) ELSE S
         IN removeCars(S1, fleet, ids \ {id})

\* the body of fleet.forEach in syncFleet
syncCar(S, c, carConfig) ==
    LET S1 == getOrCreateMaterials(S, carConfig.id)
        S2 == [S1 EXCEPT !.materialsMap[carConfig.id].color = carConfig.color,
                         !.materialsMap[carConfig.id].metalness = carConfig.metalness,
                         !.materialsMap[carConfig.id].roughness = carConfig.roughness]
    IN IF carConfig.id \notin DOMAIN S2.carMap THEN createCarGroup(S2, c, carConfig) ELSE S2

RECURSIVE syncCars(_, _, _)
syncCars(S, c, i) ==
    IF i > Len(c.fleet) THEN S ELSE syncCars(syncCar(S, c, c.fleet[i]), c, i + 1)

\* `activeCar.id` after the two loops throws when there is no active vehicle
syncFleetThrows(c) == activeCar(c) = Undefined

\* syncFleet, up to the throw if it throws
syncFleet(S, c) ==
    LET S1 == removeCars(S, c.fleet, DOMAIN S.carMap)
        S2 == syncCars(S1, c, 1)
        activeGroup == IF syncFleetThrows(c) THEN NoObj ELSE MapGet(S2.carMap, activeCar(c).id)
    IN IF activeGroup # NoObj THEN analyzeCarStructure(S2, activeGroup) ELSE S2

\* renderHotspots reads the points of the active vehicle in two sections and
\* its id, for carMap.get(car.id), in every section
renderHotspotsThrows(c, section) == activeCar(c) = Undefined

\* car.interiorPoints || [] and car.techPoints || []
pointsOf(car, field) == IF field \in DOMAIN car THEN car[field] ELSE << >>

\* renderHotspots() taking the interior points in every section
renderHotspots_interiorAlways(c, section) ==
    LET car == activeCar(c)
        points == IF car = Undefined THEN << >> ELSE pointsOf(car, "interiorPoints")
    IN [children |-> [i \in DOMAIN points |-> [car |-> car.id, point |-> points[i]]]]

\* renderHotspots(): the markers are cleared and one marker is made for every
\* point the section shows; a marker is written as the vehicle and the point
\* it was made from
renderHotspots(c, section) ==
    LET car == activeCar(c)
        points == IF car = Undefined THEN << >>
                  ELSE IF section.id = "engineering" THEN pointsOf(car, "techPoints")
                  ELSE IF section.id = "cockpit" THEN pointsOf(car, "interiorPoints")
                  ELSE << >>
    IN [children |-> [i \in DOMAIN points |-> [car |-> car.id, point |-> points[i]]]]

\* updateCarAudio(car) reads car.id (audioListener is set by init())
updateCarAudioThrows(c) == activeCar(c) = Undefined

\* ------------------------------------------------------------------------
\* Environment logic
\* ------------------------------------------------------------------------
\* the transform without obj.position.set(...)
applyEnvironmentTransform_scaleOnly(S, env, obj) ==
    [S EXCEPT !.envObjs[obj].scale = env.scale]

applyEnvironmentTransform(S, env, obj) ==
    [S EXCEPT !.envObjs[obj].scale = env.scale,
              !.envObjs[obj].position = env.position]

loadEnvironmentModel(S, env) ==
    IF env.url = NoUrl THEN S
    ELSE LET anchor == NewObj(DOMAIN S.envObjs, env.id)
             S1 == [S EXCEPT !.envObjs = MapSet(@, anchor,
                                [name |-> env.id, scale |-> 1, position |-> <<0, 0, 0>>,
                                 content |-> "empty", fresh |-> TRUE])]
             S2 == applyEnvironmentTransform(S1, env, anchor)
             S3 == [S2 EXCEPT !.envObjectMap = MapSet(@, env.id, anchor),
                              !.wallModelGroup = @ \cup {anchor}]
         IN [incrementLoading(S3) EXCEPT !.pending = @ \cup
                {[kind |-> "env", id |-> env.id, obj |-> anchor, fresh |-> TRUE]}]

\* the first loop of syncEnvironments
removeEnvironments(S, envs) ==
    LET gone == DOMAIN S.envObjectMap \ Ids(envs)
    IN [S EXCEPT !.wallModelGroup = @ \ { S.envObjectMap[id] : id \in gone },
                 !.envObjectMap = MapDelete(@, gone)]

\* the body of the second loop of syncEnvironments
syncEnvironment(S, env) ==
    IF env.id \in DOMAIN S.envObjectMap
    THEN applyEnvironmentTransform(S, env, S.envObjectMap[env.id])
    ELSE loadEnvironmentModel(S, env)

RECURSIVE syncEnvironmentsFrom(_, _, _)
syncEnvironmentsFrom(S, envs, i) ==
    IF i > Len(envs) THEN S ELSE syncEnvironmentsFrom(syncEnvironment(S, envs[i]), envs, i + 1)

syncEnvironments(S, envs) == syncEnvironmentsFrom(removeEnvironments(S, envs), envs, 1)

\* ------------------------------------------------------------------------
\* Scene objects logic
\* ------------------------------------------------------------------------
applySceneObjectTransform(S, data, group) ==
    [S EXCEPT !.sceneObjs[group].position = data.position,
              !.sceneObjs[group].rotation = data.rotation,
              !.sceneObjs[group].scale = data.scale]

loadSceneObject(S, objData) ==
    LET group == NewObj(DOMAIN S.sceneObjs, objData.id)
        S1 == [S EXCEPT !.sceneObjs = MapSet(@, group,
                           [name |-> objData.id, url |-> objData.url,
                            position |-> <<0, 0, 0>>, rotation |-> <<0, 0, 0>>,
                            scale |-> <<1, 1, 1>>, content |-> "empty", fresh |-> TRUE])]
        S2 == applySceneObjectTransform(S1, objData, group)
        S3 == [S2 EXCEPT !.sceneObjectsGroup = @ \cup {group},
                         !.sceneObjectMap = MapSet(@, objData.id, group)]
    IN [incrementLoading(S3) EXCEPT !.pending = @ \cup
           {[kind |-> "obj", id |-> objData.id, obj |-> group, fresh |-> TRUE]}]

\* the first loop of syncSceneObjects
removeSceneObjects(S, objects) ==
    LET gone == DOMAIN S.sceneObjectMap \ Ids(objects)
    IN [S EXCEPT !.sceneObjectsGroup = @ \ { S.sceneObjectMap[id] : id \in gone },
                 !.sceneObjectMap = MapDelete(@, gone)]

\* the url test of syncSceneObjects for a live id
sceneObjectUrlChanged(S, objData) ==
    S.sceneObjs[S.sceneObjectMap[objData.id]].url # objData.url

\* the body of the second loop of syncSceneObjects
syncSceneObject(S, objData) ==
    IF objData.id \in DOMAIN S.sceneObjectMap
    THEN LET group == S.sceneObjectMap[objData.id]
         IN IF sceneObjectUrlChanged(S, objData)
            THEN loadSceneObject([S EXCEPT !.sceneObjectsGroup = @ \ {group},
                                           !.sceneObjectMap = MapDelete(@, {objData.id})],
                                 objData)
            ELSE applySceneObjectTransform(S, objData, group)
    ELSE loadSceneObject(S, objData)

RECURSIVE syncSceneObjectsFrom(_, _, _)
syncSceneObjectsFrom(S, objects, i) ==
    IF i > Len(objects) THEN S
    ELSE syncSceneObjectsFrom(syncSceneObject(S, objects[i]), objects, i + 1)

syncSceneObjects(S, objects) ==
    syncSceneObjectsFrom(removeSceneObjects(S, objects), objects, 1)

\* ------------------------------------------------------------------------
\* Effects and initialisation
\* ------------------------------------------------------------------------
LoadsOf(S, kind) == { l \in S.pending : l.kind = kind }

\* objects nothing refers to any more leave the heap
collect(S) ==
    LET keepCar == Range(S.carMap) \cup S.fleetGroup \cup {S.currentCarParams.group}
                     \cup { l.obj : l \in LoadsOf(S, "car") }
        keepEnv == Range(S.envObjectMap) \cup S.wallModelGroup
                     \cup { l.obj : l \in LoadsOf(S, "env") }
        keepObj == Range(S.sceneObjectMap) \cup S.sceneObjectsGroup
                     \cup { l.obj : l \in LoadsOf(S, "obj") }
    IN [S EXCEPT !.carObjs = [o \in DOMAIN @ \cap keepCar |-> @[o]],
                 !.envObjs = [o \in DOMAIN @ \cap keepEnv |-> @[o]],
                 !.sceneObjs = [o \in DOMAIN @ \cap keepObj |-> @[o]]]

\* The numbers in the names carry no information: the anchor an id maps to is
\* renamed to number 0, the other objects of that name to 1, 2, ... in order.
Renaming(heap, map) ==
    [o \in DOMAIN heap |->
        IF MapGet(map, o[1]) = o THEN << o[1], 0 >>
        ELSE << o[1], 1 + Cardinality({ q \in DOMAIN heap :
                          q[1] = o[1] /\ MapGet(map, q[1]) # q /\ q[2] < o[2] }) >>]

Renamed(heap, ren) ==
    [n \in { ren[o] : o \in DOMAIN heap } |-> heap[CHOOSE o \in DOMAIN heap : ren[o] = n]]

Rename(ren, o) == IF o \in DOMAIN ren THEN ren[o] ELSE o

rename(S) ==
    LET rc == Renaming(S.carObjs, S.carMap)
        re == Renaming(S.envObjs, S.envObjectMap)
        ro == Renaming(S.sceneObjs, S.sceneObjectMap)
    IN [S EXCEPT
          !.carObjs = Renamed(@, rc),
          !.carMap = [k \in DOMAIN @ |-> Rename(rc, @[k])],
          !.fleetGroup = { Rename(rc, o) : o \in @ },
          !.currentCarParams = [group |-> Rename(rc, @.group)],
          !.materialsMap = [k \in DOMAIN @ |-> [@[k] EXCEPT !.inst = << k, 0 >>]],
          !.envObjs = Renamed(@, re),
          !.envObjectMap = [k \in DOMAIN @ |-> Rename(re, @[k])],
          !.wallModelGroup = { Rename(re, o) : o \in @ },
          !.sceneObjs = Renamed(@, ro),
          !.sceneObjectMap = [k \in DOMAIN @ |-> Rename(ro, @[k])],
          !.sceneObjectsGroup = { Rename(ro, o) : o \in @ },
          !.pending = { [l EXCEPT !.obj = CASE l.kind = "car" -> Rename(rc, @)
                                           [] l.kind = "env" -> Rename(re, @)
                                           [] l.kind = "obj" -> Rename(ro, @)] : l \in @ }]

\* the effects on store.config(), in the order the constructor registers them
runEffects(S, c) ==
    syncFleet(syncSceneObjects(syncEnvironments(S, c.environments), c.sceneObjects), c)

\* init(): syncFleet, syncEnvironments, syncSceneObjects on the current config
init(S, c) ==
    syncSceneObjects(syncEnvironments(syncFleet(S, c), c.environments), c.sceneObjects)

SetScene(S0) ==
    LET S == rename(collect(S0))
    IN /\ loadingCount' = S.loadingCount
       /\ carMap' = S.carMap
       /\ fleetGroup' = S.fleetGroup
       /\ carObjs' = S.carObjs
       /\ materialsMap' = S.materialsMap
       /\ currentCarParams' = S.currentCarParams
       /\ envObjectMap' = S.envObjectMap
       /\ wallModelGroup' = S.wallModelGroup
       /\ envObjs' = S.envObjs
       /\ sceneObjectMap' = S.sceneObjectMap
       /\ sceneObjectsGroup' = S.sceneObjectsGroup
       /\ sceneObjs' = S.sceneObjs
       /\ pending' = S.pending

\* ------------------------------------------------------------------------
\* Audio binder
\* ------------------------------------------------------------------------
\* new THREE.PositionalAudio(listener): no buffer, not playing, the onEnded of
\* the prototype, no source node.  `source` names the handler the source node
\* now sounding will call when it ends ("none": no node is sounding).
NewAudio ==
    [buffer |-> FALSE, clip |-> NoId, isPlaying |-> FALSE, onEnded |-> "default",
     source |-> "none", playbackRate |-> Unit]

\* THREE.Audio.play(): nothing when isPlaying; else a source node is made with
\* `source.onended = this.onEnded.bind(this)`, the handler the audio has at
\* this moment, and isPlaying is set
audioPlay(a) ==
    IF a.isPlaying THEN a ELSE [a EXCEPT !.isPlaying = TRUE, !.source = a.onEnded]

\* THREE.Audio.stop(): the node is stopped with its onended removed
audioStop(a) == [a EXCEPT !.isPlaying = FALSE, !.source = "none"]

\* the audio fields of the scene service as one value
AudioState ==
    [ isEngineRunning |-> isEngineRunning, engineSound |-> engineSound,
      ignitionSound |-> ignitionSound, currentEngineSoundId |-> currentEngineSoundId,
      audioLoads |-> audioLoads ]

SetAudio(A) ==
    /\ isEngineRunning' = A.isEngineRunning
    /\ engineSound' = A.engineSound
    /\ ignitionSound' = A.ignitionSound
    /\ currentEngineSoundId' = A.currentEngineSoundId
    /\ audioLoads' = A.audioLoads

\* car.driveSoundUrl / car.ignitionSoundUrl is set and not empty
HasUrl(car, field) == field \in DOMAIN car /\ car[field] # NoUrl

\* updateCarAudio(car) after the two sounds were moved under the active anchor
updateCarAudio(A, car) ==
    LET A1 == IF HasUrl(car, "driveSoundUrl") /\ A.currentEngineSoundId # car.id
              THEN [A EXCEPT !.engineSound = IF @.isPlaying THEN audioStop(@) ELSE @,
                             !.audioLoads = Append(@, [kind |-> "engine", id |-> car.id,
                                                       wasRunning |-> A.isEngineRunning])]
              ELSE IF /\ HasUrl(car, "driveSoundUrl")
                      /\ A.isEngineRunning /\ ~A.engineSound.isPlaying /\ A.engineSound.buffer
              THEN [A EXCEPT !.engineSound = audioPlay(@)]
              ELSE A
    IN IF HasUrl(car, "ignitionSoundUrl")
       THEN [A1 EXCEPT !.audioLoads = Append(@, [kind |-> "ignition", id |-> car.id,
                                                 wasRunning |-> FALSE])]
       ELSE A1

\* the callback of the engine clip: setBuffer, then play() if the engine was
\* running when the load was asked for
engineSoundLoaded(A, l) ==
    [A EXCEPT !.currentEngineSoundId = l.id,
              !.engineSound = IF l.wasRunning /\ ~@.isPlaying
                              THEN audioPlay([@ EXCEPT !.buffer = TRUE, !.clip = l.id])
                              ELSE [@ EXCEPT !.buffer = TRUE, !.clip = l.id]]

\* the callback of the ignition clip
ignitionSoundLoaded(A, l) ==
    [A EXCEPT !.ignitionSound = [@ EXCEPT !.buffer = TRUE, !.clip = l.id]]

\* the handler startEngine installs on the ignition sound
ignitionOnEnded(A) ==
    IF A.engineSound.buffer /\ ~A.engineSound.isPlaying /\ A.isEngineRunning
    THEN [A EXCEPT !.engineSound = audioPlay(@)]
    ELSE A

\* THREE.Audio.prototype.onEnded: isPlaying = false
defaultOnEnded(a) == [a EXCEPT !.isPlaying = FALSE]

startEngine(A) ==
    IF A.isEngineRunning THEN A
    ELSE LET A1 == [A EXCEPT !.isEngineRunning = TRUE]
         IN IF A1.ignitionSound.buffer
            THEN [A1 EXCEPT !.ignitionSound =
                     [audioPlay(IF @.isPlaying THEN audioStop(@) ELSE @)
                         EXCEPT !.onEnded = "custom"]]
            ELSE IF A1.engineSound.buffer
            THEN [A1 EXCEPT !.engineSound = audioPlay(@)]
            ELSE A1

\* stopEngine leaving the ignition source alone
stopEngine_keepsIgnition(A) ==
    IF ~A.isEngineRunning THEN A
    ELSE [A EXCEPT !.engineSound = IF @.isPlaying THEN audioStop(@) ELSE @,
                   !.isEngineRunning = FALSE]

stopEngine(A) ==
    IF ~A.isEngineRunning THEN A
    ELSE [A EXCEPT !.engineSound = IF @.isPlaying THEN audioStop(@) ELSE @,
                   !.ignitionSound = IF @.isPlaying THEN audioStop(@) ELSE @,
                   !.isEngineRunning = FALSE]

\* toggleIgnition once the audio context runs
toggleIgnition(A) == IF A.isEngineRunning THEN stopEngine(A) ELSE startEngine(A)

\* no frame has run: no time has passed, no key is down, the joystick is centred
NoInput == [delta |-> 0, key |-> 0, brake |-> FALSE, joyY |-> 0, steer |-> 0, joyX |-> 0]

\* the fleet part of DEFAULT_CONFIG the model starts from: its first two
\* vehicles (the third, rz-450, is configured like them and is left out)
DefaultFleet ==
    << [id |-> "lfa-next", modelUrl |-> NoUrl, color |-> "#FF9900", metalness |-> 6, roughness |-> 1,
        interiorPoints |-> << >>, techPoints |-> << >>],
       [id |-> "lf-z", modelUrl |-> NoUrl, color |-> "#0055ff", metalness |-> 8, roughness |-> 2,
        interiorPoints |-> << >>, techPoints |-> << >>] >>

DefaultConfig ==
    [fleet |-> DefaultFleet, activeCarIndex |-> 0, environments |-> << >>,
     activeEnvironmentId |-> NoId, sceneObjects |-> << >>]

\* the server after initializeData(): the settings and the cars the store
\* started from; of the settings the model keeps activeCarIndex
NewServer == [activeCarIndex |-> 0, fleet |-> DefaultFleet]

\* no poll under way
NoPoll == [stage |-> "idle"]

Init ==
    LET S == rename(collect(init(EmptyScene, DefaultConfig)))
    IN /\ config = DefaultConfig
       /\ loadingCount = S.loadingCount
       /\ carMap = S.carMap
       /\ fleetGroup = S.fleetGroup
       /\ carObjs = S.carObjs
       /\ materialsMap = S.materialsMap
       /\ currentCarParams = S.currentCarParams
       /\ envObjectMap = S.envObjectMap
       /\ wallModelGroup = S.wallModelGroup
       /\ envObjs = S.envObjs
       /\ sceneObjectMap = S.sceneObjectMap
       /\ sceneObjectsGroup = S.sceneObjectsGroup
       /\ sceneObjs = S.sceneObjs
       /\ pending = S.pending
       /\ lastOp = [op |-> "init", kind |-> "", live |-> TRUE]
       /\ isInitialized = TRUE
       /\ activeSectionIndex = 0
       /\ isMenuOpen = FALSE
       /\ thrown = {}
       /\ speed = 0
       /\ posZ = 0
       /\ explodeFactor = 0
       /\ partY = [id \in VehicleIds |-> 0]
       /\ origY = 0
       /\ frame = 0
       /\ input = NoInput
       /\ isEngineRunning = FALSE
       /\ engineSound = NewAudio
       /\ ignitionSound = NewAudio
       /\ currentEngineSoundId = NoId
       /\ audioLoads = << >>
       /\ controls = NewControls
       /\ camera = [position |-> ShowroomCamera, moved |-> FALSE]
       /\ visible = [menuGroup |-> FALSE, showroomGroup |-> TRUE, fleetGroup |-> TRUE,
                     charGroup |-> FALSE, hotspotGroup |-> TRUE]
       /\ carVisible = [id \in VehicleIds |-> TRUE]
       /\ hotspotGroup = [children |-> << >>]
       /\ steering = 0
       /\ carAngle = 0
       /\ posX = 0
       /\ charRotation = 0
       /\ charPos = CharacterPosition
       /\ server = NewServer
       /\ pollResponse = NoPoll

\* ------------------------------------------------------------------------
\* Store operations; each one publishes a new config and the effects run
\* ------------------------------------------------------------------------
\* the body parts after syncFleet: the parts under an anchor that was kept are
\* where they were, the parts under a new anchor are where the builder put them
keptParts(S, parts) ==
    [id \in VehicleIds |->
        IF id \in DOMAIN S.carMap /\ ~S.carObjs[S.carMap[id]].fresh THEN parts[id] ELSE 0]

\* the anchors after syncFleet: an anchor that was kept is shown or hidden as
\* it was, a new THREE.Group() is visible
keptVisible(S, vis) ==
    [id \in VehicleIds |->
        IF id \in DOMAIN S.carMap /\ ~S.carObjs[S.carMap[id]].fresh THEN vis[id] ELSE TRUE]

\* analyzeCarStructure(activeGroup) at the end of syncFleet: originalPositions
\* is cleared and set to the position each part has now
recordedOriginal(S, c, parts, orig) ==
    IF syncFleetThrows(c) THEN orig ELSE keptParts(S, parts)[activeCar(c).id]

\* the effect on store.activeCar(): renderHotspots(), then updateCarAudio(car);
\* it runs when the active vehicle is another value than before
activeCarEffectThrows(c) ==
    IF activeCar(c) = activeCar(config) THEN {}
    ELSE IF renderHotspotsThrows(c, activeSection(activeSectionIndex)) THEN {"renderHotspots"}
    ELSE IF updateCarAudioThrows(c) THEN {"updateCarAudio"}
    ELSE {}

\* the audio binder after the effect on store.activeCar(): updateCarAudio(car)
\* runs when the active vehicle is another value and nothing threw before it
activeCarEffect(A, c) ==
    IF activeCar(c) = activeCar(config) \/ activeCarEffectThrows(c) # {} THEN A
    ELSE updateCarAudio(A, activeCar(c))

\* the auto-save effect of the store: saveGlobalConfig(current, false) sends
\* globalSettings, activeCarIndex among them, and never the cars
saveGlobalConfig(srv, c) == [srv EXCEPT !.activeCarIndex = c.activeCarIndex]

\* pollServerUpdates() after a response: getCars() is sent when the settings
\* have been merged, and the poll is over when the cars have been
pollAfter(op) ==
    IF op = "pollSettings" THEN [stage |-> "cars", fleet |-> server.fleet]
    ELSE IF op = "pollCars" THEN NoPoll
    ELSE pollResponse

\* config.update(...) by the store operation op, followed by the effects that
\* read store.config(); the effects of the scene do nothing before init() has
\* run
PublishAs(c, op, kind) ==
    LET A == activeCarEffect(AudioState, c)
        S0 == runEffects(Scene, c)
        S == [S0 EXCEPT !.loadingCount = @ + Len(A.audioLoads) - Len(audioLoads)]
    IN /\ config' = c
       /\ IF isInitialized
          THEN /\ Cardinality(S.pending) <= MaxPending
               /\ SetScene(S)
               /\ thrown' = (IF syncFleetThrows(c) THEN {"syncFleet"} ELSE {})
                                \cup activeCarEffectThrows(c)
               /\ partY' = keptParts(S, partY)
               /\ origY' = recordedOriginal(S, c, partY, origY)
               /\ Len(A.audioLoads) <= MaxSoundLoads
               /\ SetAudio(A)
               /\ carVisible' = keptVisible(S, carVisible)
               /\ hotspotGroup' = IF activeCar(c) = activeCar(config) THEN hotspotGroup
                                  ELSE renderHotspots(c, activeSection(activeSectionIndex))
          ELSE UNCHANGED << sceneVars, thrown, partY, origY, audioVars, carVisible, hotspotGroup >>
       /\ lastOp' = [op |-> op, kind |-> kind, live |-> TRUE]
       /\ server' = saveGlobalConfig(server, c)
       /\ pollResponse' = pollAfter(op)
       /\ UNCHANGED << isInitialized, viewVars, speed, posZ, explodeFactor, frame, input >>
       /\ UNCHANGED << controls, camera, visible, steering, carAngle, posX, charRotation, charPos >>

Publish(c) == PublishAs(c, "publish", "")

\* The three collections are reconciled by separate code over separate maps.
\* A run works on one collection at a time: an operation on one collection is
\* taken while the other two are as initialised and have no load in flight.
FleetAtRest ==
    /\ config.fleet = DefaultFleet
    /\ config.activeCarIndex = 0
    /\ \A l \in pending : l.kind # "car"

EnvironmentsAtRest == config.environments = << >> /\ \A l \in pending : l.kind # "env"

SceneObjectsAtRest == config.sceneObjects = << >> /\ \A l \in pending : l.kind # "obj"

\* the fleets the server can deliver: non-empty, one entry per id
Fleets ==
    { f \in UNION { [1..n -> CarConfigs] : n \in 1..Cardinality(VehicleIds) } : DistinctIds(f) }

\* pollServerUpdates: a non-empty serverCars replaces the fleet
PollFleet ==
    \E serverCars \in Fleets :
        /\ EnvironmentsAtRest /\ SceneObjectsAtRest
        /\ Len(serverCars) > 0
        /\ Publish([config EXCEPT !.fleet = serverCars])

SetCarIndex ==
    \E index \in 0..(Cardinality(VehicleIds) - 1) :
        /\ EnvironmentsAtRest /\ SceneObjectsAtRest
        /\ Publish(setCarIndex(config, index))

\* the ids of a collection are distinct: an entry is added under an id the
\* collection does not hold yet
AddEnvironment ==
    \E env \in EnvironmentItems :
        /\ FleetAtRest /\ SceneObjectsAtRest
        /\ env.id \notin Ids(config.environments)
        /\ Publish(addEnvironment(config, env))

UpdateEnvironment ==
    \E id \in Ids(config.environments), updates \in EnvironmentItems :
        /\ FleetAtRest /\ SceneObjectsAtRest
        /\ updates.id = id
        /\ Publish(updateEnvironment(config, id, updates))

RemoveEnvironment ==
    \E id \in Ids(config.environments) :
        /\ FleetAtRest /\ SceneObjectsAtRest
        /\ Publish(removeEnvironment(config, id))

AddSceneObject ==
    \E obj \in SceneObjects :
        /\ FleetAtRest /\ EnvironmentsAtRest
        /\ obj.id \notin Ids(config.sceneObjects)
        /\ Publish(addSceneObject(config, obj))

UpdateSceneObject ==
    \E id \in Ids(config.sceneObjects), updates \in SceneObjects :
        /\ FleetAtRest /\ EnvironmentsAtRest
        /\ updates.id = id
        /\ Publish(updateSceneObject(config, id, updates))

RemoveSceneObject ==
    \E id \in Ids(config.sceneObjects) :
        /\ FleetAtRest /\ EnvironmentsAtRest
        /\ Publish(removeSceneObject(config, id))

\* ------------------------------------------------------------------------
\* Load callbacks
\* ------------------------------------------------------------------------
\* the anchor a load was started for is still the anchor its id maps to
Live(l) ==
    CASE l.kind = "car" -> MapGet(carMap, l.id) = l.obj
      [] l.kind = "env" -> MapGet(envObjectMap, l.id) = l.obj
      [] l.kind = "obj" -> MapGet(sceneObjectMap, l.id) = l.obj

\* analyzeCarStructure(group) in onLoad of the active vehicle: the parts of the
\* model just added are recorded where the file put them
loadedOriginal(l, op, orig) ==
    IF op = "loaded" /\ l.kind = "car" /\ activeCar(config) # Undefined
                     /\ activeCar(config).id = l.id
    THEN 0 ELSE orig

\* the end of every load callback: store.decrementLoading(); the load is over
Finish(S, l, op) ==
    /\ SetScene([decrementLoading(S) EXCEPT
                    !.pending = { x \in @ : x.kind # l.kind \/ x.obj # l.obj }])
    /\ lastOp' = [op |-> op, kind |-> l.kind, live |-> Live(l)]
    /\ thrown' = {}
    /\ origY' = loadedOriginal(l, op, origY)
    /\ UNCHANGED << config, isInitialized, netVars, viewVars, speed, posZ, explodeFactor, partY,
                    frame, input, audioVars, stageVars >>

\* `this.store.activeCar().id` in onLoad throws when there is no active vehicle
carLoadedThrows == activeCar(config) = Undefined

\* onLoad of createCarGroup, up to store.decrementLoading() or to the throw
carLoaded(S, l) ==
    LET S1 == getOrCreateMaterials(S, l.id)
        S2 == [S1 EXCEPT !.carObjs[l.obj].content = "model"]
    IN IF carLoadedThrows THEN S2
       ELSE IF activeCar(config).id = l.id THEN analyzeCarStructure(S2, l.obj) ELSE S2

\* an exception of onLoad that nothing handles: no callback runs after it
onLoadThrew_unhandled(S) == S

\* GLTFLoader calls onLoad inside the promise chain of parse(), which ends
\* with .catch(onError): an exception of onLoad is handed to the error
\* callback of the load, console.error(...) and store.decrementLoading()
onLoadThrew(S) == decrementLoading(S)

\* the load is over; a callback that threw did not reach its own
\* decrementLoading(), and the error callback ran after it
CarLoadDone ==
    \E l \in pending :
        /\ l.kind = "car"
        /\ IF carLoadedThrows
           THEN /\ SetScene([onLoadThrew(carLoaded(Scene, l)) EXCEPT
                                !.pending = { x \in @ : x.kind # l.kind \/ x.obj # l.obj }])
                /\ lastOp' = [op |-> "loaded", kind |-> l.kind, live |-> Live(l)]
                /\ thrown' = {}
                /\ UNCHANGED << config, isInitialized, netVars, viewVars, tickVars, audioVars,
                                stageVars >>
           ELSE Finish(carLoaded(Scene, l), l, "loaded")

CarLoadFailed ==
    \E l \in pending : l.kind = "car" /\ Finish(Scene, l, "failed")

\* onLoad adding the model to whatever anchor the id maps to now
envLoaded_intoLiveAnchor(S, l) ==
    IF l.id \in DOMAIN S.envObjectMap
    THEN [S EXCEPT !.envObjs[S.envObjectMap[l.id]].content = "model"]
    ELSE S

\* onLoad of loadEnvironmentModel
envLoaded(S, l) ==
    IF l.id \in DOMAIN S.envObjectMap
    THEN [S EXCEPT !.envObjs[l.obj].content = "model"]
    ELSE S

EnvLoadDone ==
    \E l \in pending : l.kind = "env" /\ Finish(envLoaded(Scene, l), l, "loaded")

EnvLoadFailed ==
    \E l \in pending : l.kind = "env" /\ Finish(Scene, l, "failed")

\* onLoad of loadSceneObject
sceneObjectLoaded(S, l) ==
    IF l.id \in DOMAIN S.sceneObjectMap
    THEN [S EXCEPT !.sceneObjs[l.obj].content = "model"]
    ELSE S

SceneObjectLoadDone ==
    \E l \in pending : l.kind = "obj" /\ Finish(sceneObjectLoaded(Scene, l), l, "loaded")

SceneObjectLoadFailed ==
    \E l \in pending : l.kind = "obj" /\ Finish(Scene, l, "failed")

Next ==
    \/ PollFleet
    \/ SetCarIndex
    \/ AddEnvironment
    \/ UpdateEnvironment
    \/ RemoveEnvironment
    \/ AddSceneObject
    \/ UpdateSceneObject
    \/ RemoveSceneObject
    \/ CarLoadDone
    \/ CarLoadFailed
    \/ EnvLoadDone
    \/ EnvLoadFailed
    \/ SceneObjectLoadDone
    \/ SceneObjectLoadFailed

Spec == Init /\ [][Next]_vars

\* ------------------------------------------------------------------------
\* View and render loop
\* ------------------------------------------------------------------------
\* THREE.MathUtils.lerp(x, y, delta * rate), delta in milliseconds
lerp(x, y, delta, rate) == x + TruncDiv((y - x) * delta * rate, Unit)

\* store.updateConfig({ fleet })
updateConfig(c, fleet) == [c EXCEPT !.fleet = fleet]

\* the fleets made of vehicles of DEFAULT_CONFIG, the empty fleet among them
PlainFleets ==
    { f \in UNION { [1..n -> Range(DefaultFleet)] : n \in 0..Len(DefaultFleet) } : DistinctIds(f) }

UpdateConfigFleet ==
    \E fleet \in PlainFleets :
        /\ EnvironmentsAtRest /\ SceneObjectsAtRest
        /\ Publish(updateConfig(config, fleet))

\* the fields the entry actions write, as one value
Stage ==
    [controls |-> controls, camera |-> camera, visible |-> visible,
     steering |-> steering, carAngle |-> carAngle, charPos |-> charPos]

enterMenuMode(V) ==
    [V EXCEPT !.visible = [menuGroup |-> TRUE, showroomGroup |-> FALSE, fleetGroup |-> FALSE,
                           charGroup |-> FALSE, hotspotGroup |-> FALSE],
              !.controls.enabled = FALSE]

exitMenuMode(V) ==
    [V EXCEPT !.visible.menuGroup = FALSE, !.visible.showroomGroup = TRUE,
              !.visible.fleetGroup = TRUE]

\* resetCameraToShowroom without camera.position.set(6, 2, 7)
resetCameraToShowroom_keepsPosition(V) ==
    [V EXCEPT !.controls.target = ShowroomTarget, !.controls.enabled = TRUE]

\* resetCameraToShowroom, but for speed = 0
resetCameraToShowroom(V) ==
    [V EXCEPT !.camera = [position |-> ShowroomCamera, moved |-> FALSE],
              !.controls.target = ShowroomTarget, !.controls.enabled = TRUE]

moveToInterior(V) ==
    [V EXCEPT !.controls = [@ EXCEPT !.target = InteriorTarget, !.minDistance = 10,
                                     !.maxDistance = 1500, !.maxPolarAngle = Pi,
                                     !.enablePan = TRUE],
              !.camera = [position |-> InteriorCamera, moved |-> FALSE]]

enterWalkMode(V) ==
    [V EXCEPT !.visible.charGroup = TRUE, !.charPos = CharacterPosition,
              !.controls.enabled = FALSE,
              !.camera = [position |-> WalkCamera, moved |-> charRotation # 0]]

\* Main View Effect, but for speed and renderHotspots()
mainView(V, index, menu) ==
    LET section == activeSection(index)
        V1 == [exitMenuMode(V) EXCEPT
                  !.controls = [@ EXCEPT !.enabled = TRUE, !.maxPolarAngle = ShowroomPolarAngle,
                                         !.minDistance = 1000, !.maxDistance = 25000,
                                         !.enablePan = FALSE]]
    IN IF ~isInitialized THEN V
       ELSE IF menu THEN enterMenuMode(V)
       ELSE CASE section.id = "showroom" ->
                   [resetCameraToShowroom(V1) EXCEPT !.visible.charGroup = FALSE]
              [] section.id = "cockpit" ->
                   [moveToInterior(V1) EXCEPT !.visible.charGroup = FALSE]
              [] section.id = "engineering" ->
                   [V1 EXCEPT !.controls.minDistance = 2000, !.visible.charGroup = FALSE]
              [] section.id = "walk" -> enterWalkMode(V1)
              [] section.id = "drive" ->
                   [V1 EXCEPT !.visible.charGroup = FALSE, !.steering = 0, !.carAngle = 0]

\* the Main View Effect on the fields of the stage
SetStage(index, menu) ==
    LET V == mainView(Stage, index, menu)
    IN /\ controls' = V.controls
       /\ camera' = V.camera
       /\ visible' = V.visible
       /\ steering' = V.steering
       /\ carAngle' = V.carAngle
       /\ charPos' = V.charPos
       /\ hotspotGroup' = IF isInitialized /\ ~menu
                          THEN renderHotspots(config, activeSection(index))
                          ELSE hotspotGroup
       /\ UNCHANGED << carVisible, posX, charRotation >>

\* Main View Effect: what it does to speed in the section it finds
mainViewSpeed(index, menu) ==
    IF ~isInitialized \/ menu THEN speed
    ELSE IF activeSection(index).id \in {"showroom", "drive"} THEN 0
    ELSE speed

\* Main View Effect: it ends with renderHotspots() unless the menu is open
mainViewThrows(index, menu) ==
    IF isInitialized /\ ~menu /\ renderHotspotsThrows(config, activeSection(index))
    THEN {"renderHotspots"} ELSE {}

\* activeSectionIndex.set(index), then the Main View Effect
SetSectionTo(index) ==
    /\ index # activeSectionIndex
    /\ activeSectionIndex' = index
    /\ speed' = mainViewSpeed(index, isMenuOpen)
    /\ thrown' = mainViewThrows(index, isMenuOpen)
    /\ SetStage(index, isMenuOpen)
    /\ lastOp' = [op |-> "view", kind |-> "", live |-> TRUE]
    /\ UNCHANGED << config, sceneVars, isInitialized, netVars, isMenuOpen,
                    posZ, explodeFactor, partY, origY, frame, input, audioVars >>

SetSection == \E index \in 0..(Len(Sections) - 1) : SetSectionTo(index)

\* isMenuOpen.set(open), then the Main View Effect
SetMenuOpen ==
    /\ isMenuOpen' = ~isMenuOpen
    /\ speed' = mainViewSpeed(activeSectionIndex, ~isMenuOpen)
    /\ thrown' = mainViewThrows(activeSectionIndex, ~isMenuOpen)
    /\ SetStage(activeSectionIndex, ~isMenuOpen)
    /\ lastOp' = [op |-> "view", kind |-> "", live |-> TRUE]
    /\ UNCHANGED << config, sceneVars, isInitialized, netVars, activeSectionIndex,
                    posZ, explodeFactor, partY, origY, frame, input, audioVars >>

\* `this.carMap.get(activeCarConfig.id)` at the top of animate()
animateThrows == activeCar(config) = Undefined

\* throttle = clamp((isUp ? 1 : isDown ? -1 : 0) + joystick.y, -1, 1)
throttleOf(in) == Max(-Unit, Min(Unit, in.key * Unit + in.joyY))

\* the brake branch: speed = lerp(speed, 0, delta * 2)
brakeSpeed(v, delta) == lerp(v, 0, delta, BrakeRate)

\* the throttle branch: accelerate, clamp, drag
throttleSpeed(v, throttle, delta) ==
    TruncDiv(Max(MinSpeed, Min(MaxSpeed, v + TruncDiv(throttle * Acceleration * delta, Unit)))
                 * Drag, 100)

\* speed after the brake or throttle branch of the drive block
driveSpeed(v, in) ==
    IF in.brake THEN brakeSpeed(v, in.delta) ELSE throttleSpeed(v, throttleOf(in), in.delta)

\* steerInput = clamp((isLeft ? 0.6 : isRight ? -0.6 : 0) + joystick.x * -0.6)
\* without the clamp
steerInputOf_unclamped(in) == in.steer * MaxSteer + TruncDiv(in.joyX * (-MaxSteer), Unit)

\* the joystick steering to the side of the key: joystick.x * 0.6
steerInputOf_joystickAdds(in) ==
    Max(-MaxSteer, Min(MaxSteer, in.steer * MaxSteer + TruncDiv(in.joyX * MaxSteer, Unit)))

steerInputOf(in) ==
    Max(-MaxSteer, Min(MaxSteer, in.steer * MaxSteer + TruncDiv(in.joyX * (-MaxSteer), Unit)))

\* steering = lerp(steering, steerInput, delta * 5)
steeringOf(st, in) == lerp(st, steerInputOf(in), in.delta, SteerRate)

\* if (|speed| > 0.1) carAngle += speed * steering * 0.05 * delta
carAngleOf(a, v, st, delta) ==
    IF Abs(v) > Unit \div 10
    THEN a + TruncDiv(TruncDiv(TruncDiv(v, 100) * st, Unit) * delta, 200)
    ELSE a

\* Math.sin of an angle between 0 and pi, in thousandths
\* (16 x (pi - x) / (5 pi^2 - 4 x (pi - x)), within 0.002 of the sine)
sinOfHalfTurn(x) == (16 * x * (Pi - x)) \div ((5 * Pi * Pi - 4 * x * (Pi - x)) \div Unit)

\* Math.sin and Math.cos of an angle in thousandths of a radian
Sin(a) ==
    LET r == a % (2 * Pi)
    IN IF r <= Pi THEN sinOfHalfTurn(r) ELSE -sinOfHalfTurn(r - Pi)

Cos(a) == Sin(a + Pi \div 2)

\* nextX = position.x + sin(carAngle) * speed * delta
nextXOf(x, a, v, delta) == x + TruncDiv(TruncDiv(Sin(a) * v, Unit) * delta, Unit)

\* nextZ = position.z + cos(carAngle) * speed * delta
nextZOf(z, a, v, delta) == z + TruncDiv(TruncDiv(Cos(a) * v, Unit) * delta, Unit)

\* moveFwd = (isUp ? 1 : isDown ? -1 : 0) + joystick.y
moveFwdOf(in) == in.key * Unit + in.joyY

\* rotate = (isLeft ? 1 : isRight ? -1 : 0) + (-joystick.x)
rotateOf(in) == in.steer * Unit + (-in.joyX)

\* charRotation += rotate * 3 * delta
charRotationOf(r, in) == r + TruncDiv(rotateOf(in) * 3 * in.delta, Unit)

\* if (|moveFwd| > 0.1) position += (sin, cos)(charRotation) * moveFwd * 5 * delta
charPositionOf(p, r, in) ==
    IF Abs(moveFwdOf(in)) > Unit \div 10
    THEN << p[1] + TruncDiv(TruncDiv(Sin(r) * moveFwdOf(in), Unit) * 5 * in.delta, Unit),
            p[2] + TruncDiv(TruncDiv(Cos(r) * moveFwdOf(in), Unit) * 5 * in.delta, Unit) >>
    ELSE p

\* the boundary test that looks at no coordinate
outOfBounds_never(z) == FALSE

outOfBounds(z) == Abs(z) > MapBounds

\* speed *= -0.5
bounceSpeed(v) == TruncDiv(-v, 2)

\* lerp(explodeFactor, isTechMode ? 1 : 0, delta * 3)
explodeStep(e, section, delta) ==
    lerp(e, IF section.id = "engineering" THEN Unit ELSE 0, delta, ExplodeRate)

\* the vehicle whose body parts currentCarParams tracks, when the tracked
\* anchor is the one the id maps to and has parts under it
trackedId ==
    LET group == currentCarParams.group
    IN IF /\ group \in DOMAIN carObjs
          /\ carObjs[group].content # "empty"
          /\ MapGet(carMap, carObjs[group].name) = group
       THEN carObjs[group].name ELSE NoId

\* a body part in the explode block: orig + (0, 1.5 * val, 0) above the snap
\* epsilon, orig at or below it outside engineering, else left where it is
explodeBodyPart(y, orig, val, section) ==
    IF val > SnapEpsilon THEN orig + TruncDiv(3 * val, 2)
    ELSE IF section.id # "engineering" THEN orig
    ELSE y

\* controls.update() with no pointer input: the camera is left where it is
\* when its distance to the target is between minDistance and maxDistance
withinDistance(pos, ctl) ==
    LET d2 == (pos[1] - ctl.target[1]) * (pos[1] - ctl.target[1])
              + (pos[2] - ctl.target[2]) * (pos[2] - ctl.target[2])
              + (pos[3] - ctl.target[3]) * (pos[3] - ctl.target[3])
    IN ctl.minDistance * ctl.minDistance <= d2 /\ d2 <= ctl.maxDistance * ctl.maxDistance

\* the lineup block: group.visible = true for every vehicle of the fleet that
\* has an anchor
lineupVisible(vis) ==
    [id \in VehicleIds |-> IF id \in Ids(config.fleet) /\ id \in DOMAIN carMap THEN TRUE ELSE vis[id]]

\* the drive block: every anchor of carMap but the active one is hidden
driveVisible(vis, active) ==
    [id \in VehicleIds |-> IF id \in DOMAIN carMap THEN carMap[id] = active ELSE vis[id]]

\* the walk block: if (activeGroup) activeGroup.visible = true
walkVisible(vis, active) ==
    [id \in VehicleIds |-> IF id \in DOMAIN carMap /\ carMap[id] = active THEN TRUE ELSE vis[id]]

\* const spacing = 12
Spacing == 12 * Unit

\* offsetIndex = index - activeIndex for the active vehicle, activeIndex being
\* store.activeCarIndex() as it is
offsetIndexOf(c) == FindIndex(c.fleet, activeCar(c).id) - 1 - c.activeCarIndex

\* targetX = offsetIndex * spacing
targetXOf(c) == offsetIndexOf(c) * Spacing

\* one frame of animate() with the clock delta, keys and joystick given
animate(in) ==
    LET section == activeSection(activeSectionIndex)
        activeGroup == MapGet(carMap, activeCar(config).id)
        v == driveSpeed(speed, in)
        st == steeringOf(steering, in)
        a == carAngleOf(carAngle, v, st, in.delta)
        nextX == nextXOf(posX, a, v, in.delta)
        nextZ == nextZOf(posZ, a, v, in.delta)
        bounce == outOfBounds(nextX) \/ outOfBounds(nextZ)
        e == explodeStep(explodeFactor, section, in.delta)
    IN IF isMenuOpen
       THEN /\ camera' = [camera EXCEPT !.moved = TRUE]
            /\ UNCHANGED << speed, posZ, explodeFactor, partY,
                            carVisible, steering, carAngle, posX, charRotation, charPos >>
       ELSE IF section.id \notin {"drive", "walk"}
       THEN /\ speed' = speed
            /\ posZ' = IF activeGroup # NoObj THEN lerp(posZ, 0, in.delta, LineupRate) ELSE posZ
            /\ posX' = IF activeGroup # NoObj
                       THEN lerp(posX, targetXOf(config), in.delta, LineupRate) ELSE posX
            /\ explodeFactor' = IF activeGroup # NoObj THEN e ELSE explodeFactor
            /\ partY' = IF activeGroup # NoObj /\ trackedId # NoId
                        THEN [partY EXCEPT ![trackedId] = explodeBodyPart(@, origY, e, section)]
                        ELSE partY
            /\ carVisible' = lineupVisible(carVisible)
            /\ camera' = [camera EXCEPT !.moved = @ \/ ~withinDistance(camera.position, controls)]
            /\ UNCHANGED << steering, carAngle, charRotation, charPos >>
       ELSE IF section.id = "drive" /\ activeGroup # NoObj
       THEN /\ speed' = IF bounce THEN bounceSpeed(v) ELSE v
            /\ steering' = st
            /\ carAngle' = a
            /\ posX' = IF bounce THEN posX ELSE nextX
            /\ posZ' = IF bounce THEN posZ ELSE nextZ
            /\ carVisible' = driveVisible(carVisible, activeGroup)
            /\ camera' = [camera EXCEPT !.moved = TRUE]
            /\ UNCHANGED << explodeFactor, partY, charRotation, charPos >>
       ELSE IF section.id = "walk"
       THEN /\ carVisible' = IF activeGroup # NoObj THEN walkVisible(carVisible, activeGroup)
                             ELSE carVisible
            /\ charRotation' = charRotationOf(charRotation, in)
            /\ charPos' = charPositionOf(charPos, charRotationOf(charRotation, in), in)
            /\ camera' = [camera EXCEPT !.moved = @ \/ in.key # 0 \/ in.joyY # 0
                                                      \/ in.steer # 0 \/ in.joyX # 0]
            /\ UNCHANGED << speed, posZ, explodeFactor, partY, steering, carAngle, posX >>
       ELSE UNCHANGED << speed, posZ, explodeFactor, partY,
                         camera, carVisible, steering, carAngle, posX, charRotation, charPos >>

\* the engine playback rate set in every frame, the frames of the menu too
setPlaybackRate_inMenu(a, menu, running, v) ==
    IF running /\ a.isPlaying THEN [a EXCEPT !.playbackRate = 800 + Abs(v) \div 100] ELSE a

\* after the return of the menu branch: if (isEngineRunning && engineSound &&
\* engineSound.isPlaying) setPlaybackRate(0.8 + |speed| / 80 * 0.8)
setPlaybackRate(a, menu, running, v) ==
    IF ~menu /\ running /\ a.isPlaying
    THEN [a EXCEPT !.playbackRate = 800 + Abs(v) \div 100]
    ELSE a

\* const delta = this.clock.getDelta(): the time since the frame before
getDelta(elapsed) == elapsed

\* requestAnimationFrame calls animate(); it throws before it does anything
\* when there is no active vehicle
Animate(in) ==
    /\ isInitialized
    /\ frame' = frame + 1
    /\ input' = in
    /\ IF animateThrows
       THEN /\ thrown' = {"animate"}
            /\ UNCHANGED << speed, posZ, explodeFactor, partY,
                            camera, carVisible, steering, carAngle, posX, charRotation, charPos >>
       ELSE thrown' = {} /\ animate(in)
    /\ engineSound' = IF animateThrows THEN engineSound
                      ELSE setPlaybackRate(engineSound, isMenuOpen, isEngineRunning, speed)
    /\ lastOp' = [op |-> "frame", kind |-> "", live |-> TRUE]
    /\ UNCHANGED << config, sceneVars, isInitialized, netVars, viewVars, origY,
                    isEngineRunning, ignitionSound, currentEngineSoundId, audioLoads,
                    controls, visible, hotspotGroup >>

\* a frame at 60 frames a second with no key down and the joystick centred
IdleFrame ==
    /\ frame < MaxFrames
    /\ Animate([delta |-> getDelta(16), key |-> 0, brake |-> FALSE, joyY |-> 0,
                 steer |-> 0, joyX |-> 0])

\* The active vehicle: the fleet is replaced, the index and the section are
\* set, and frames run with no input.
NextActive ==
    \/ UpdateConfigFleet
    \/ SetCarIndex
    \/ SetSection
    \/ IdleFrame

SpecActive == Init /\ [][NextActive]_vars

\* ------------------------------------------------------------------------
\* The store before the scene is initialised
\* ------------------------------------------------------------------------
\* the state after construction: DEFAULT_CONFIG, an empty scene, no init() yet
InitStore ==
    /\ config = DefaultConfig
    /\ loadingCount = 0
    /\ carMap = EmptyMap /\ fleetGroup = {} /\ carObjs = EmptyMap
    /\ materialsMap = EmptyMap /\ currentCarParams = [group |-> NoObj]
    /\ envObjectMap = EmptyMap /\ wallModelGroup = {} /\ envObjs = EmptyMap
    /\ sceneObjectMap = EmptyMap /\ sceneObjectsGroup = {} /\ sceneObjs = EmptyMap
    /\ pending = {}
    /\ lastOp = [op |-> "construct", kind |-> "", live |-> TRUE]
    /\ isInitialized = FALSE
    /\ activeSectionIndex = 0
    /\ isMenuOpen = FALSE
    /\ thrown = {}
    /\ speed = 0
    /\ posZ = 0
    /\ explodeFactor = 0
    /\ partY = [id \in VehicleIds |-> 0]
    /\ origY = 0
    /\ frame = 0
    /\ input = NoInput
    /\ isEngineRunning = FALSE
    /\ engineSound = NewAudio
    /\ ignitionSound = NewAudio
    /\ currentEngineSoundId = NoId
    /\ audioLoads = << >>
    /\ controls = NewControls
    /\ camera = [position |-> ShowroomCamera, moved |-> FALSE]
    /\ visible = [menuGroup |-> FALSE, showroomGroup |-> TRUE, fleetGroup |-> TRUE,
                  charGroup |-> FALSE, hotspotGroup |-> TRUE]
    /\ carVisible = [id \in VehicleIds |-> TRUE]
    /\ hotspotGroup = [children |-> << >>]
    /\ steering = 0
    /\ carAngle = 0
    /\ posX = 0
    /\ charRotation = 0
    /\ charPos = CharacterPosition
    /\ server = NewServer
    /\ pollResponse = NoPoll

StoreEnvIds == {"e1", "e2", "e3"}

StoreEnvironmentItems ==
    { [id |-> i, url |-> "car.glb", scale |-> t.scale, position |-> t.position] :
      i \in StoreEnvIds, t \in EnvTransforms }

\* whether the environment an operation names is the active one
Selection(id) == IF config.activeEnvironmentId = id THEN "active" ELSE "other"

StoreAddEnvironment ==
    \E env \in StoreEnvironmentItems :
        /\ ~isInitialized
        /\ env.id \notin Ids(config.environments)
        /\ PublishAs(addEnvironment(config, env), "addEnvironment", Selection(env.id))

StoreSetActiveEnvironment ==
    \E id \in Ids(config.environments) :
        /\ ~isInitialized
        /\ PublishAs(setActiveEnvironment(config, id), "setActiveEnvironment", Selection(id))

StoreUpdateEnvironment ==
    \E id \in Ids(config.environments), updates \in StoreEnvironmentItems :
        /\ ~isInitialized
        /\ updates.id = id
        /\ PublishAs(updateEnvironment(config, id, updates), "updateEnvironment", Selection(id))

StoreRemoveEnvironment ==
    \E id \in Ids(config.environments) :
        /\ ~isInitialized
        /\ PublishAs(removeEnvironment(config, id), "removeEnvironment", Selection(id))

NextStore ==
    \/ StoreAddEnvironment
    \/ StoreSetActiveEnvironment
    \/ StoreUpdateEnvironment
    \/ StoreRemoveEnvironment

SpecStore == InitStore /\ [][NextStore]_vars

\* ------------------------------------------------------------------------
\* The fleet in the store, before the scene is initialised
\* ------------------------------------------------------------------------
StoreSetCarIndex ==
    \E index \in 0..(Cardinality(VehicleIds) - 1) :
        /\ ~isInitialized
        /\ index # config.activeCarIndex
        /\ PublishAs(setCarIndex(config, index), "setCarIndex", "")

\* pollServerUpdates: a non-empty serverCars replaces the fleet
StorePollFleet ==
    \E serverCars \in PlainFleets :
        /\ ~isInitialized
        /\ Len(serverCars) > 0
        /\ serverCars # config.fleet
        /\ PublishAs([config EXCEPT !.fleet = serverCars], "poll", "")

\* the paint of the active vehicle is edited, wherever activeCarIndex points
StoreUpdateActiveCar ==
    \E updates \in Paints :
        /\ ~isInitialized
        /\ updateActiveCar(config, updates) # config
        /\ PublishAs(updateActiveCar(config, updates), "updateActiveCar", "")

\* store.updateConfig({ fleet: [] }): the last vehicle is deleted
StoreClearFleet ==
    /\ ~isInitialized
    /\ config.fleet # << >>
    /\ PublishAs(updateConfig(config, << >>), "updateConfig", "")

NextFleetStore ==
    \/ StoreSetCarIndex
    \/ StorePollFleet
    \/ StoreClearFleet
    \/ StoreUpdateActiveCar

SpecFleetStore == InitStore /\ [][NextFleetStore]_vars

\* ------------------------------------------------------------------------
\* Driving
\* ------------------------------------------------------------------------
\* the times between two frames: 60 frames a second, 10 frames a second, and
\* the first frame after the tab was in the background for two seconds
Elapsed == {16, 100, 2000}

\* w / s keys (1, -1, none) and joystick.y
ThrottleKeys == {-1, 0, 1}

JoystickY == {0, Unit \div 2}

EnterDrive == SetSectionTo(1)

\* a frame in the drive section
DriveFrame ==
    \E elapsed \in Elapsed, key \in ThrottleKeys, brake \in BOOLEAN, joyY \in JoystickY :
        /\ frame < MaxDriveFrames
        /\ activeSection(activeSectionIndex).id = "drive"
        /\ Animate([delta |-> getDelta(elapsed), key |-> key, brake |-> brake, joyY |-> joyY,
                    steer |-> 0, joyX |-> 0])

NextDrive ==
    \/ EnterDrive
    \/ DriveFrame

SpecDrive == Init /\ [][NextDrive]_vars

\* ------------------------------------------------------------------------
\* Steering
\* ------------------------------------------------------------------------
\* the times between two frames: 10 frames a second, and two seconds
SteerElapsed == {100, 2000}

\* w held or not
ForwardKeys == {0, 1}

\* a / d keys (1 left, -1 right, none) and joystick.x, which updatePosition
\* keeps within [-1, 1]
SteerKeys == {-1, 0, 1}

JoystickX == {-Unit, 0, Unit}

\* a frame in the drive section with the keys and the joystick in any position
SteerFrame ==
    \E elapsed \in SteerElapsed, key \in ForwardKeys, joyY \in JoystickY,
       steer \in SteerKeys, joyX \in JoystickX :
        /\ frame < MaxSteerFrames
        /\ activeSection(activeSectionIndex).id = "drive"
        /\ Animate([delta |-> getDelta(elapsed), key |-> key, brake |-> FALSE, joyY |-> joyY,
                    steer |-> steer, joyX |-> joyX])

NextSteer ==
    \/ EnterDrive
    \/ SteerFrame

SpecSteer == Init /\ [][NextSteer]_vars

\* ------------------------------------------------------------------------
\* Walking
\* ------------------------------------------------------------------------
\* the frames of a walk
MaxWalkFrames == 2

\* the times between two frames of a walk: 10 frames a second, and a slow
\* frame of 0.3 s
WalkElapsed == {100, 300}

\* joystick.y, which updatePosition keeps within [-1, 1]
WalkJoystickY == {-Unit, 0, Unit}

EnterWalk == SetSectionTo(4)

\* a frame in the walk section with the keys and the joystick in any position
WalkFrame ==
    \E elapsed \in WalkElapsed, key \in ThrottleKeys, joyY \in WalkJoystickY,
       steer \in SteerKeys, joyX \in JoystickX :
        /\ frame < MaxWalkFrames
        /\ activeSection(activeSectionIndex).id = "walk"
        /\ Animate([delta |-> getDelta(elapsed), key |-> key, brake |-> FALSE, joyY |-> joyY,
                    steer |-> steer, joyX |-> joyX])

NextWalk ==
    \/ EnterWalk
    \/ WalkFrame

SpecWalk == Init /\ [][NextWalk]_vars

\* ------------------------------------------------------------------------
\* Exploded view
\* ------------------------------------------------------------------------
\* the times between two frames of a run through the sections: 10 frames a
\* second, and a slow frame of 0.3 s
ExplodeElapsed == {100, 300}

\* the paint of the active vehicle is edited in the configurator
UpdateActiveCar ==
    \E updates \in Paints :
        /\ config.activeCarIndex < Len(config.fleet)
        /\ updates \in PaintsOf(activeCar(config).id)
        /\ updates.color # activeCar(config).color
        /\ Publish(updateActiveCar(config, updates))

\* a frame in whatever section is shown, no key down, the joystick centred
ExplodeFrame ==
    \E elapsed \in ExplodeElapsed :
        /\ frame < MaxExplodeFrames
        /\ Animate([delta |-> getDelta(elapsed), key |-> 0, brake |-> FALSE, joyY |-> 0,
                 steer |-> 0, joyX |-> 0])

NextExplode ==
    \/ SetSection
    \/ SetMenuOpen
    \/ UpdateActiveCar
    \/ ExplodeFrame

SpecExplode == Init /\ [][NextExplode]_vars

\* ------------------------------------------------------------------------
\* Modes
\* ------------------------------------------------------------------------
\* w held or not, a held or not
StageKeys == {0, 1}

\* a frame at 10 frames a second in whatever mode is shown
StageFrame ==
    \E key \in StageKeys, steer \in StageKeys :
        /\ frame < MaxStageFrames
        /\ Animate([delta |-> getDelta(100), key |-> key, brake |-> FALSE, joyY |-> 0,
                    steer |-> steer, joyX |-> 0])

\* The sections are visited and the menu is opened and closed while frames run.
NextStage ==
    \/ SetSection
    \/ SetMenuOpen
    \/ StageFrame

SpecStage == Init /\ [][NextStage]_vars

\* ------------------------------------------------------------------------
\* Hotspots
\* ------------------------------------------------------------------------
HotspotTypes == {"interiorPoints", "techPoints"}

\* crypto.randomUUID(): an id no point of the list has
newPointId(points) == CHOOSE n \in 1..(Len(points) + 1) : \A i \in DOMAIN points : points[i].id # n

\* store.addHotspot(type)
addHotspot(c, type) ==
    LET points == pointsOf(activeCar(c), type)
    IN updateActiveCar(c, type :> Append(points, [id |-> newPointId(points)]))

\* store.removeHotspot(type, pointId)
removeHotspot(c, type, pointId) ==
    updateActiveCar(c, type :> SelectSeq(pointsOf(activeCar(c), type), LAMBDA p : p.id # pointId))

\* the hotspots of the vehicles of a fleet, counted
RECURSIVE CountPoints(_)
CountPoints(fleet) ==
    IF fleet = << >> THEN 0
    ELSE Len(pointsOf(Head(fleet), "interiorPoints")) + Len(pointsOf(Head(fleet), "techPoints"))
             + CountPoints(Tail(fleet))

AddHotspot ==
    \E type \in HotspotTypes :
        /\ activeCar(config) # Undefined
        /\ CountPoints(config.fleet) < MaxPoints
        /\ Publish(addHotspot(config, type))

RemoveHotspot ==
    \E type \in HotspotTypes :
        /\ activeCar(config) # Undefined
        /\ \E i \in DOMAIN pointsOf(activeCar(config), type) :
               Publish(removeHotspot(config, type, pointsOf(activeCar(config), type)[i].id))

\* Hotspots are added to and removed from the active vehicle while the
\* vehicle and the section change.
NextHotspots ==
    \/ SetSection
    \/ SetCarIndex
    \/ AddHotspot
    \/ RemoveHotspot

SpecHotspots == Init /\ [][NextHotspots]_vars

\* ------------------------------------------------------------------------
\* Ignition and engine sound
\* ------------------------------------------------------------------------
\* the clips the configurator can give the active vehicle
SoundUpdates ==
    [ignitionSoundUrl : {NoUrl, "ignition.mp3"}, driveSoundUrl : {NoUrl, "engine.mp3"}]

\* the sound clips of the active vehicle are edited in the configurator
UpdateActiveCarSounds ==
    \E updates \in SoundUpdates :
        /\ config.activeCarIndex < Len(config.fleet)
        /\ updateActiveCar(config, updates) # config
        /\ Publish(updateActiveCar(config, updates))

\* AppComponent.playIgnition(): threeService.toggleIgnition(); a suspended
\* audio context is resumed first, what follows runs when it has resumed.
\* Before init() there is no audioListener and the call throws.
ToggleIgnition ==
    /\ IF isInitialized
       THEN /\ SetAudio(toggleIgnition(AudioState))
            /\ speed' = IF isEngineRunning THEN 0 ELSE speed
            /\ thrown' = {}
       ELSE /\ thrown' = {"toggleIgnition"}
            /\ UNCHANGED << speed, audioVars >>
    /\ lastOp' = [op |-> "toggleIgnition",
                  kind |-> IF ~isEngineRunning THEN "start"
                           ELSE IF engineSound.isPlaying /\ ignitionSound.isPlaying
                           THEN "stopBoth"
                           ELSE "stop",
                  live |-> TRUE]
    /\ UNCHANGED << config, sceneVars, isInitialized, netVars, viewVars,
                    posZ, explodeFactor, partY, origY, frame, input, stageVars >>

\* the ignition one-shot plays to its end: the source node calls the handler
\* it was given when it was made
IgnitionEnded ==
    /\ ignitionSound.source # "none"
    /\ LET A == [AudioState EXCEPT !.ignitionSound.source = "none"]
       IN SetAudio(IF ignitionSound.source = "custom"
                   THEN ignitionOnEnded(A)
                   ELSE [A EXCEPT !.ignitionSound = defaultOnEnded(@)])
    /\ lastOp' = [op |-> "ignitionEnded", kind |-> ignitionSound.source, live |-> TRUE]
    /\ thrown' = {}
    /\ UNCHANGED << config, sceneVars, isInitialized, netVars, viewVars, tickVars, stageVars >>

\* audioLoads without its i-th entry
WithoutLoad(i) == [j \in 1..(Len(audioLoads) - 1) |-> audioLoads[IF j < i THEN j ELSE j + 1]]

\* a clip arrives: the callback of its load, which ends with decrementLoading()
SoundLoaded ==
    \E i \in DOMAIN audioLoads :
        LET l == audioLoads[i]
            A == [AudioState EXCEPT !.audioLoads = WithoutLoad(i)]
        IN /\ SetAudio(IF l.kind = "engine" THEN engineSoundLoaded(A, l)
                                            ELSE ignitionSoundLoaded(A, l))
           /\ SetScene(decrementLoading(Scene))
           /\ lastOp' = [op |-> "soundLoaded", kind |-> l.kind, live |-> TRUE]
           /\ thrown' = {}
           /\ UNCHANGED << config, isInitialized, netVars, viewVars, tickVars, stageVars >>

\* a clip fails to load: () => this.store.decrementLoading()
SoundLoadFailed ==
    \E i \in DOMAIN audioLoads :
        /\ SetAudio([AudioState EXCEPT !.audioLoads = WithoutLoad(i)])
        /\ SetScene(decrementLoading(Scene))
        /\ lastOp' = [op |-> "soundFailed", kind |-> audioLoads[i].kind, live |-> TRUE]
        /\ thrown' = {}
        /\ UNCHANGED << config, isInitialized, netVars, viewVars, tickVars, stageVars >>

NextAudio ==
    \/ UpdateActiveCarSounds
    \/ ToggleIgnition
    \/ IgnitionEnded
    \/ SoundLoaded
    \/ SoundLoadFailed

SpecAudio == Init /\ [][NextAudio]_vars

\* ------------------------------------------------------------------------
\* Frames of the menu
\* ------------------------------------------------------------------------
\* the frames of a run through the drive and into the menu
MaxMenuFrames == 2

\* the engine clip of the active vehicle is set in the configurator
SetDriveSound ==
    /\ config.activeCarIndex < Len(config.fleet)
    /\ ~HasUrl(activeCar(config), "driveSoundUrl")
    /\ Publish(updateActiveCar(config, [driveSoundUrl |-> "engine.mp3"]))

\* a frame at 10 frames a second in the drive or in the menu, w held or not
MenuFrame ==
    \E key \in ForwardKeys :
        /\ frame < MaxMenuFrames
        /\ Animate([delta |-> getDelta(100), key |-> key, brake |-> FALSE, joyY |-> 0,
                    steer |-> 0, joyX |-> 0])

\* The engine clip is loaded, the engine is started and the vehicle is
\* driven; the menu is opened and closed while frames run.
NextMenu ==
    \/ SetDriveSound
    \/ SoundLoaded
    \/ ToggleIgnition
    \/ EnterDrive
    \/ SetMenuOpen
    \/ MenuFrame

SpecMenu == Init /\ [][NextMenu]_vars

\* ------------------------------------------------------------------------
\* Engine clips of several vehicles
\* ------------------------------------------------------------------------
\* The vehicles get their engine clips, the active vehicle is changed while
\* clips are loading, and every clip arrives.
NextClips ==
    \/ SetDriveSound
    \/ SetCarIndex
    \/ ToggleIgnition
    \/ SoundLoaded

SpecClips == Init /\ [][NextClips]_vars

\* ------------------------------------------------------------------------
\* The loading counter
\* ------------------------------------------------------------------------
\* store.updateConfig({ fleet: [] }): the last vehicle is deleted
ClearFleet ==
    /\ config.fleet # << >>
    /\ Publish(updateConfig(config, << >>))

\* the vehicles of DEFAULT_CONFIG, each with a model file or without
ModelFleets ==
    { [i \in DOMAIN DefaultFleet |-> [DefaultFleet[i] EXCEPT !.modelUrl = urls[i]]] :
      urls \in [DOMAIN DefaultFleet -> CarUrls \cup {NoUrl}] }

\* pollServerUpdates: the cars of the server replace the fleet
PollModels ==
    \E serverCars \in ModelFleets :
        /\ serverCars # config.fleet
        /\ Publish([config EXCEPT !.fleet = serverCars])

\* The fleet is replaced by the server and emptied by the administrator
\* while models and clips load, arrive and fail.
NextLoading ==
    \/ PollModels
    \/ ClearFleet
    \/ SetDriveSound
    \/ CarLoadDone
    \/ CarLoadFailed
    \/ SoundLoaded
    \/ SoundLoadFailed

SpecLoading == Init /\ [][NextLoading]_vars

\* ------------------------------------------------------------------------
\* Polling
\* ------------------------------------------------------------------------
\* the polling timer fires: pollServerUpdates() returns at once while
\* isLoading(), else getSettings() is sent; the server answers with the
\* settings it holds and the response is on its way
PollStart ==
    /\ pollResponse.stage = "idle"
    /\ loadingCount = 0
    /\ pollResponse' = [stage |-> "settings", activeCarIndex |-> server.activeCarIndex]
    /\ lastOp' = [op |-> "pollStart", kind |-> "", live |-> TRUE]
    /\ UNCHANGED << config, sceneVars, isInitialized, server, viewVars, thrown, tickVars,
                    audioVars, stageVars >>

\* the settings arrive: config.update(current => ({ ...current,
\* ...serverSettings })), then getCars() is sent
PollSettingsArrive ==
    /\ pollResponse.stage = "settings"
    /\ EnvironmentsAtRest /\ SceneObjectsAtRest
    /\ PublishAs([config EXCEPT !.activeCarIndex = pollResponse.activeCarIndex],
                 "pollSettings", "")

\* the cars arrive: a non-empty serverCars replaces the fleet
PollCarsArrive ==
    /\ pollResponse.stage = "cars"
    /\ Len(pollResponse.fleet) > 0
    /\ EnvironmentsAtRest /\ SceneObjectsAtRest
    /\ PublishAs([config EXCEPT !.fleet = pollResponse.fleet], "pollCars", "")

\* The vehicle is changed and painted and the sections are visited while the
\* store polls the server.
NextPoll ==
    \/ PollStart
    \/ PollSettingsArrive
    \/ PollCarsArrive
    \/ SetCarIndex
    \/ UpdateActiveCar
    \/ SetSection

SpecPoll == Init /\ [][NextPoll]_vars

\* ------------------------------------------------------------------------
\* Properties
\* ------------------------------------------------------------------------
FleetIds == Ids(config.fleet)

\* the record of an id in a collection of the configuration
CarOf(c, id) == c.fleet[FindIndex(c.fleet, id)]

EnvOf(c, id) == c.environments[FindIndex(c.environments, id)]

ObjOf(c, id) == c.sceneObjects[FindIndex(c.sceneObjects, id)]

\* the step is a reconciliation / the completion of a load whose anchor had
\* been released / the failure of a load
Reconciled == lastOp'.op = "publish"

StaleLoaded(kinds) == lastOp'.op = "loaded" /\ lastOp'.kind \in kinds /\ ~lastOp'.live

LoadFailed == lastOp'.op = "failed"

\* the step leaves currentCarParams on the anchor it was on: a live anchor
\* keeps its name, a released one is known by what is recorded on it
SameTrackedAnchor ==
    /\ currentCarParams.group \in Range(carMap) => currentCarParams'.group = currentCarParams.group
    /\ currentCarParams.group = NoObj <=> currentCarParams'.group = NoObj
    /\ currentCarParams.group # NoObj =>
           carObjs'[currentCarParams'.group] = Aged(carObjs[currentCarParams.group])

\* C1: after every reconciliation the keys of carMap are the ids of the fleet
\* and the keys of sceneObjectMap the ids of sceneObjects; each id has one
\* anchor of its own, the anchors of the live ids are exactly the children of
\* fleetGroup / sceneObjectsGroup, so the anchor of a removed id is no child.
C1_LiveIdsAreConfiguredIds ==
    /\ DOMAIN carMap = FleetIds
    /\ DOMAIN sceneObjectMap = Ids(config.sceneObjects)
    /\ \A i, j \in DOMAIN carMap : carMap[i] = carMap[j] => i = j
    /\ \A i, j \in DOMAIN sceneObjectMap : sceneObjectMap[i] = sceneObjectMap[j] => i = j
    /\ \A i \in DOMAIN carMap : carObjs[carMap[i]].name = i
    /\ \A i \in DOMAIN sceneObjectMap : sceneObjs[sceneObjectMap[i]].name = i
    /\ fleetGroup = Range(carMap)
    /\ sceneObjectsGroup = Range(sceneObjectMap)

\* a reconciliation has just removed a vehicle whose model was still loading
C1_Witness ==
    /\ lastOp.op = "publish"
    /\ \E l \in pending : l.kind = "car" /\ l.id \notin FleetIds /\ l.obj \notin fleetGroup

\* C2: after every syncEnvironments run every environment id of the
\* configuration has one anchor in envObjectMap and under wallModelGroup,
\* whether or not its url is set, and absent ids have none.
C2_EveryEnvironmentHasAnchor ==
    /\ DOMAIN envObjectMap = Ids(config.environments)
    /\ wallModelGroup = Range(envObjectMap)

\* C3: a vehicle load that completes after its anchor was released is a no-op
\* on live state: no materialsMap entry appears, and tracked parts and wheels
\* that were those of a live anchor stay those of a live anchor.
C3_StaleCarLoadIsNoOp ==
    [][StaleLoaded({"car"}) =>
          /\ DOMAIN materialsMap' = DOMAIN materialsMap
          /\ currentCarParams.group \in Range(carMap) =>
                 currentCarParams'.group \in Range(carMap')]_vars

\* C4: an environment or scene-object load that completes after its anchor was
\* released adds nothing to an anchor in a live map or under a parent group and
\* changes no map; all it does to shared state is to decrement loadingCount.
C4_StaleLoadOnlyDecrements ==
    [][StaleLoaded({"env", "obj"}) =>
          /\ envObjectMap' = envObjectMap /\ wallModelGroup' = wallModelGroup
          /\ sceneObjectMap' = sceneObjectMap /\ sceneObjectsGroup' = sceneObjectsGroup
          /\ carMap' = carMap /\ fleetGroup' = fleetGroup
          /\ SameTrackedAnchor
          /\ DOMAIN materialsMap' = DOMAIN materialsMap
          /\ \A o \in Range(envObjectMap) \cup wallModelGroup :
                 envObjs'[o] = Aged(envObjs[o])
          /\ \A o \in Range(sceneObjectMap) \cup sceneObjectsGroup :
                 sceneObjs'[o] = Aged(sceneObjs[o])
          /\ \A o \in Range(carMap) \cup fleetGroup : carObjs'[o] = Aged(carObjs[o])
          /\ config' = config
          /\ loadingCount' = loadingCount - 1]_vars

\* the load of an environment that was removed and added again meanwhile has
\* just completed
C4_Witness ==
    /\ lastOp = [op |-> "loaded", kind |-> "env", live |-> FALSE]
    /\ "e1" \in DOMAIN envObjectMap
    /\ envObjs[envObjectMap["e1"]].content = "empty"

\* the live ids that stay in the configuration and whose URL differs from / is
\* the same as the one recorded on the anchor
CarsWithUrlChanged ==
    { id \in DOMAIN carMap \cap Ids(config'.fleet) :
          carObjs[carMap[id]].modelUrl # CarOf(config', id).modelUrl }

ObjsWithUrlChanged ==
    { id \in DOMAIN sceneObjectMap \cap Ids(config'.sceneObjects) :
          sceneObjs[sceneObjectMap[id]].url # ObjOf(config', id).url }

EnvsWithUrlChanged ==
    { id \in DOMAIN envObjectMap \cap Ids(config.environments) \cap Ids(config'.environments) :
          EnvOf(config, id).url # EnvOf(config', id).url }

CarsWithUrlKept == (DOMAIN carMap \cap Ids(config'.fleet)) \ CarsWithUrlChanged

ObjsWithUrlKept == (DOMAIN sceneObjectMap \cap Ids(config'.sceneObjects)) \ ObjsWithUrlChanged

EnvsWithUrlKept ==
    (DOMAIN envObjectMap \cap Ids(config.environments) \cap Ids(config'.environments))
        \ EnvsWithUrlChanged

\* the loads of a kind that the step started for an id
NewLoads(kind, id) == { l \in pending' : l.kind = kind /\ l.id = id /\ l.fresh }

\* after the step the id has a new anchor, the only child of the parent group
\* that carries its name: the old anchor was detached and not used again
CarReplaced(id) ==
    /\ id \in DOMAIN carMap' /\ carObjs'[carMap'[id]].fresh
    /\ carObjs'[carMap'[id]].modelUrl = CarOf(config', id).modelUrl
    /\ { o \in fleetGroup' : carObjs'[o].name = id } = {carMap'[id]}
    /\ \A o \in DOMAIN carObjs' : carObjs'[o].name = id /\ ~carObjs'[o].fresh => o \notin fleetGroup'

ObjReplaced(id) ==
    /\ id \in DOMAIN sceneObjectMap' /\ sceneObjs'[sceneObjectMap'[id]].fresh
    /\ sceneObjs'[sceneObjectMap'[id]].url = ObjOf(config', id).url
    /\ { o \in sceneObjectsGroup' : sceneObjs'[o].name = id } = {sceneObjectMap'[id]}
    /\ \A o \in DOMAIN sceneObjs' :
           sceneObjs'[o].name = id /\ ~sceneObjs'[o].fresh => o \notin sceneObjectsGroup'

\* C5 (as stated): when the URL of a live vehicle or scene object differs from
\* the one recorded on its anchor, the next reconciliation replaces the anchor
\* and starts exactly one load of the new URL.
C5_UrlChangeStartsOneLoad ==
    [][Reconciled =>
          /\ \A id \in CarsWithUrlChanged :
                 CarReplaced(id) /\ Cardinality(NewLoads("car", id)) = 1
          /\ \A id \in ObjsWithUrlChanged :
                 ObjReplaced(id) /\ Cardinality(NewLoads("obj", id)) = 1]_vars

\* C5 (amended): when the URL of a live vehicle or scene object differs from
\* the one recorded on its anchor, the next reconciliation replaces the anchor;
\* it starts exactly one load when the new URL is set, and when a vehicle's new
\* modelUrl is absent it starts none and builds the procedural body instead.
C5_UrlChangeReplacesAnchor ==
    [][Reconciled =>
          /\ \A id \in CarsWithUrlChanged :
                 /\ CarReplaced(id)
                 /\ IF CarOf(config', id).modelUrl # NoUrl
                    THEN /\ Cardinality(NewLoads("car", id)) = 1
                         /\ \A l \in NewLoads("car", id) : l.obj = carMap'[id]
                         /\ carObjs'[carMap'[id]].content = "empty"
                    ELSE /\ NewLoads("car", id) = {}
                         /\ carObjs'[carMap'[id]].content = "procedural"
          /\ \A id \in ObjsWithUrlChanged :
                 /\ ObjReplaced(id)
                 /\ Cardinality(NewLoads("obj", id)) = 1
                 /\ \A l \in NewLoads("obj", id) : l.obj = sceneObjectMap'[id]
                 /\ sceneObjs'[sceneObjectMap'[id]].content = "empty"]_vars

\* a reconciliation has just replaced the anchor of a vehicle that went from
\* no modelUrl to "car.glb", while the fleet kept the id
C5_Witness ==
    /\ lastOp.op = "publish"
    /\ \E id \in DOMAIN carMap :
           /\ carObjs[carMap[id]].fresh
           /\ carObjs[carMap[id]].modelUrl = "car.glb"
           /\ \E l \in pending : l.kind = "car" /\ l.obj = carMap[id] /\ l.fresh
           /\ config.fleet # DefaultFleet

\* C6: when the url of a live environment changes while its id stays, the next
\* syncEnvironments detaches the old anchor and starts a load of the new URL
\* into a new anchor.
C6_EnvironmentUrlChangeReloads ==
    [][Reconciled =>
          \A id \in EnvsWithUrlChanged :
              /\ id \in DOMAIN envObjectMap' /\ envObjs'[envObjectMap'[id]].fresh
              /\ \E l \in NewLoads("env", id) : l.obj = envObjectMap'[id]]_vars

\* C7: a reconciliation in which a live id keeps its URL starts no load for
\* the id and keeps its anchor, with the content it had; this holds of every
\* reconciliation, so of every repetition.
C7_SameUrlNeverReloads ==
    [][Reconciled =>
          /\ \A id \in CarsWithUrlKept :
                 /\ id \in DOMAIN carMap' /\ ~carObjs'[carMap'[id]].fresh
                 /\ carObjs'[carMap'[id]] = Aged(carObjs[carMap[id]])
                 /\ NewLoads("car", id) = {}
          /\ \A id \in EnvsWithUrlKept :
                 /\ id \in DOMAIN envObjectMap' /\ ~envObjs'[envObjectMap'[id]].fresh
                 /\ envObjs'[envObjectMap'[id]].content = envObjs[envObjectMap[id]].content
                 /\ NewLoads("env", id) = {}
          /\ \A id \in ObjsWithUrlKept :
                 /\ id \in DOMAIN sceneObjectMap' /\ ~sceneObjs'[sceneObjectMap'[id]].fresh
                 /\ sceneObjs'[sceneObjectMap'[id]].content
                        = sceneObjs[sceneObjectMap[id]].content
                 /\ sceneObjs'[sceneObjectMap'[id]].url = sceneObjs[sceneObjectMap[id]].url
                 /\ NewLoads("obj", id) = {}]_vars

\* a reconciliation has just run over a vehicle whose model had been loaded
\* before and whose modelUrl it found unchanged
C7_Witness ==
    /\ lastOp.op = "publish"
    /\ \E id \in DOMAIN carMap :
           /\ ~carObjs[carMap[id]].fresh
           /\ carObjs[carMap[id]].content = "model"
           /\ carObjs[carMap[id]].modelUrl = CarOf(config, id).modelUrl
           /\ \A l \in pending : l.id # id

\* C8: changing the modelUrl of a vehicle that stays in the fleet keeps the
\* material set cached for its id: the instances in materialsMap are the ones
\* that were there, none is disposed and made anew.
C8_UrlChangeKeepsMaterials ==
    [][Reconciled =>
          \A id \in CarsWithUrlChanged \cap DOMAIN materialsMap :
              id \in DOMAIN materialsMap' /\ ~materialsMap'[id].fresh]_vars

\* C9: after every reconciliation each live environment anchor has the scale
\* and position of its record, each live scene-object anchor the position,
\* rotation and scale of its record, and the paint of each vehicle of the
\* fleet the colour, metalness and roughness of its record.
C9_ParametersMatchConfig ==
    /\ \A i \in DOMAIN config.environments :
           LET env == config.environments[i]
           IN env.id \in DOMAIN envObjectMap =>
                  /\ envObjs[envObjectMap[env.id]].scale = env.scale
                  /\ envObjs[envObjectMap[env.id]].position = env.position
    /\ \A i \in DOMAIN config.sceneObjects :
           LET data == config.sceneObjects[i]
           IN /\ data.id \in DOMAIN sceneObjectMap
              /\ sceneObjs[sceneObjectMap[data.id]].position = data.position
              /\ sceneObjs[sceneObjectMap[data.id]].rotation = data.rotation
              /\ sceneObjs[sceneObjectMap[data.id]].scale = data.scale
    /\ \A i \in DOMAIN config.fleet :
           LET carConfig == config.fleet[i]
           IN /\ carConfig.id \in DOMAIN materialsMap
              /\ materialsMap[carConfig.id].color = carConfig.color
              /\ materialsMap[carConfig.id].metalness = carConfig.metalness
              /\ materialsMap[carConfig.id].roughness = carConfig.roughness

\* a reconciliation has just moved and scaled an environment anchor that was
\* there before it, and the model of that anchor is loaded
C9_Witness ==
    /\ lastOp.op = "publish"
    /\ \E id \in DOMAIN envObjectMap :
           /\ ~envObjs[envObjectMap[id]].fresh
           /\ envObjs[envObjectMap[id]].content = "model"
           /\ envObjs[envObjectMap[id]].scale = 2
           /\ envObjs[envObjectMap[id]].position = <<5, 0, -3>>

\* the live anchors whose load is over and left them without content
FailedCars ==
    { id \in DOMAIN carMap :
          /\ carObjs[carMap[id]].content = "empty"
          /\ \A l \in pending : l.kind = "car" => l.obj # carMap[id] }

FailedEnvs ==
    { id \in DOMAIN envObjectMap :
          /\ envObjs[envObjectMap[id]].content = "empty"
          /\ \A l \in pending : l.kind = "env" => l.obj # envObjectMap[id] }

FailedObjs ==
    { id \in DOMAIN sceneObjectMap :
          /\ sceneObjs[sceneObjectMap[id]].content = "empty"
          /\ \A l \in pending : l.kind = "obj" => l.obj # sceneObjectMap[id] }

\* C10: the failure of a load leaves every map, parent group and anchor as it
\* was (the entity's anchor stays, without content) and takes exactly one off
\* loadingCount; a later reconciliation that finds the URL unchanged starts no
\* load for the failed entity, and in a reconciliation run while there are
\* failed entities every entity that is new gets its anchor, and its load when
\* it has a URL.
C10_FailureLeavesEmptyAnchor ==
    [][/\ LoadFailed =>
              /\ carMap' = carMap /\ fleetGroup' = fleetGroup
              /\ envObjectMap' = envObjectMap /\ wallModelGroup' = wallModelGroup
              /\ sceneObjectMap' = sceneObjectMap /\ sceneObjectsGroup' = sceneObjectsGroup
              /\ \A o \in Range(carMap) : carObjs'[o] = Aged(carObjs[o])
              /\ \A o \in Range(envObjectMap) : envObjs'[o] = Aged(envObjs[o])
              /\ \A o \in Range(sceneObjectMap) : sceneObjs'[o] = Aged(sceneObjs[o])
              /\ materialsMap' = [k \in DOMAIN materialsMap |-> Aged(materialsMap[k])]
              /\ SameTrackedAnchor
              /\ loadingCount' = loadingCount - 1
              /\ Cardinality(pending') = Cardinality(pending) - 1
              /\ lastOp'.live =>
                     CASE lastOp'.kind = "car" -> FailedCars' \ FailedCars # {}
                       [] lastOp'.kind = "env" -> FailedEnvs' \ FailedEnvs # {}
                       [] lastOp'.kind = "obj" -> FailedObjs' \ FailedObjs # {}
       /\ Reconciled =>
              /\ \A id \in FailedCars \cap CarsWithUrlKept :
                     id \in FailedCars' /\ NewLoads("car", id) = {}
              /\ \A id \in FailedEnvs \cap EnvsWithUrlKept :
                     id \in FailedEnvs' /\ NewLoads("env", id) = {}
              /\ \A id \in FailedObjs \cap ObjsWithUrlKept :
                     id \in FailedObjs' /\ NewLoads("obj", id) = {}
              /\ FailedCars # {} =>
                     \A id \in Ids(config'.fleet) \ DOMAIN carMap :
                         /\ id \in DOMAIN carMap' /\ carObjs'[carMap'[id]].fresh
                         /\ carMap'[id] \in fleetGroup'
                         /\ IF CarOf(config', id).modelUrl # NoUrl
                            THEN \E l \in NewLoads("car", id) : l.obj = carMap'[id]
                            ELSE carObjs'[carMap'[id]].content = "procedural"]_vars

\* a reconciliation has just run while one vehicle's load had failed and has
\* started the load of another vehicle
C10_Witness ==
    /\ lastOp.op = "publish"
    /\ \E id \in FailedCars :
           /\ ~carObjs[carMap[id]].fresh
           /\ carObjs[carMap[id]].modelUrl # NoUrl
           /\ \E l \in pending : l.kind = "car" /\ l.fresh /\ l.id # id /\ l.obj = carMap[l.id]

\* the anchors of the vehicles that have no modelUrl carry the procedural body
\* and no load is in flight for them
ProceduralWithoutLoad ==
    \A id \in DOMAIN carMap :
        carObjs[carMap[id]].modelUrl = NoUrl =>
            /\ carObjs[carMap[id]].content = "procedural"
            /\ \A l \in pending : l.kind = "car" => l.obj # carMap[id]

\* C11: a vehicle without modelUrl gets its anchor with the procedural body in
\* the syncFleet call that creates it and no load is started for it:
\* loadingCount goes up by the loads started for the vehicles that have a
\* modelUrl and by nothing else.
C11_NoUrlBuildsProcedural ==
    /\ []ProceduralWithoutLoad
    /\ [][Reconciled =>
             /\ \A id \in Ids(config'.fleet) :
                    CarOf(config', id).modelUrl = NoUrl =>
                        /\ id \in DOMAIN carMap'
                        /\ carObjs'[carMap'[id]].content = "procedural"
                        /\ NewLoads("car", id) = {}
             /\ loadingCount' = loadingCount
                    + Cardinality({ l \in pending' : l.fresh })
             /\ \A l \in pending' :
                    l.fresh /\ l.kind = "car" => carObjs'[l.obj].modelUrl # NoUrl]_vars

\* a reconciliation has just created the anchor of a vehicle without modelUrl
\* (the vehicle had a model before, or was away) next to a vehicle being loaded
C11_Witness ==
    /\ lastOp.op = "publish"
    /\ \E id \in DOMAIN carMap :
           /\ carObjs[carMap[id]].fresh
           /\ carObjs[carMap[id]].modelUrl = NoUrl
           /\ carObjs[carMap[id]].content = "procedural"
    /\ \E l \in pending : l.kind = "car" /\ l.fresh
    /\ loadingCount = Cardinality(pending)

\* C12: whatever the fleet and activeCarIndex, the active vehicle is a vehicle
\* of the fleet (the first one when the index points at none) or a defined
\* "none", and syncFleet, renderHotspots, updateCarAudio and the frame all run
\* to their end without throwing.
C12_ActiveVehicleNeverThrows ==
    /\ thrown = {}
    /\ config.fleet # << >> =>
           /\ activeCar(config) \in Range(config.fleet)
           /\ config.activeCarIndex + 1 \notin DOMAIN config.fleet =>
                  activeCar(config) = config.fleet[1]

\* the selection is null or an environment of the list
SelectionInList ==
    config.activeEnvironmentId = NoId \/ config.activeEnvironmentId \in Ids(config.environments)

\* C13: over addEnvironment, removeEnvironment and setActiveEnvironment of an
\* existing id, activeEnvironmentId is null or the id of an environment of the
\* list; removing the active environment selects the first one that remains,
\* or null when none remains; removing another one leaves the selection.
C13_SelectionFollowsRemoval ==
    /\ []SelectionInList
    /\ [][lastOp'.op = "removeEnvironment" =>
             IF lastOp'.kind = "active"
             THEN config'.activeEnvironmentId =
                      (IF config'.environments # << >> THEN config'.environments[1].id ELSE NoId)
             ELSE config'.activeEnvironmentId = config.activeEnvironmentId]_vars

\* the active environment, which was not the first of three, has just been
\* removed and the first of the two that remain is selected
C13_Witness ==
    /\ lastOp = [op |-> "removeEnvironment", kind |-> "active", live |-> TRUE]
    /\ Len(config.environments) = 2
    /\ config.activeEnvironmentId = config.environments[1].id
    /\ activeEnvironment(config) = config.environments[1]

\* the step is a frame of the drive section
DriveFrameRan ==
    /\ lastOp'.op = "frame"
    /\ activeSection(activeSectionIndex).id = "drive"
    /\ ~isMenuOpen

\* C14: in drive mode the speed after every frame is within
\* [minSpeed, maxSpeed] = [-20, 80], also after a frame in which the vehicle
\* bounced off the boundary of the map.
C14_SpeedWithinLimits == MinSpeed <= speed /\ speed <= MaxSpeed

\* C15: in a frame with the brake key held the magnitude of speed does not
\* grow and speed does not change sign, whatever time the frame took.
C15_BrakeNeverGrowsSpeed ==
    [][DriveFrameRan /\ input'.brake =>
          /\ Abs(speed') <= Abs(speed)
          /\ speed' * speed >= 0]_vars

\* C16: the time a frame works with is clamped, so that none of the factors
\* delta * rate it interpolates with is over 1.
C16_DeltaIsClamped ==
    \A rate \in {BrakeRate, ExplodeRate, LineupRate} : input.delta * rate <= Unit

\* the step is a frame that ran to its end with `section` shown
FrameRan ==
    /\ lastOp'.op = "frame"
    /\ thrown' = {}

\* C17: in every frame explodeFactor moves toward 1 when the section is
\* engineering and toward 0 in every other mode (showroom, interior, drive,
\* walk, menu), so that it falls to the snap epsilon once engineering is left.
C17_FactorDecaysOutsideEngineering ==
    [][FrameRan =>
          IF activeSection(activeSectionIndex).id = "engineering" /\ ~isMenuOpen
          THEN explodeFactor < Unit => explodeFactor' > explodeFactor
          ELSE explodeFactor > SnapEpsilon => explodeFactor' < explodeFactor]_vars

\* C18: after a frame of a lineup section other than engineering that leaves
\* explodeFactor at or below the snap epsilon, the body part of the active
\* vehicle is where it was before it was exploded, also when the fleet was
\* synchronised again while it was displaced.
C18_SnapRestoresParts ==
    ( /\ lastOp.op = "frame"
      /\ thrown = {}
      /\ ~isMenuOpen
      /\ activeSection(activeSectionIndex).id \notin {"drive", "walk", "engineering"}
      /\ explodeFactor <= SnapEpsilon )
    => partY[activeCar(config).id] = 0

\* the step is the end of the ignition one-shot
IgnitionEndedStep == lastOp'.op = "ignitionEnded" /\ ignitionSound.source # "none"

\* the step is a call of toggleIgnition
ToggleStep == lastOp'.op = "toggleIgnition" /\ thrown' = {}

\* C19: once the ignition was toggled off, also before its one-shot finished,
\* the engine loop is not playing and no one-shot is left to start it; and
\* when the one-shot ends the engine loop plays after it exactly if the
\* running flag is set and an engine clip is loaded.
C19_IgnitionEndStartsEngineIfRunning ==
    /\ [](~isEngineRunning => ~engineSound.isPlaying /\ ignitionSound.source = "none")
    /\ [][IgnitionEndedStep =>
             (engineSound'.isPlaying <=>
                 (engineSound.isPlaying \/ (isEngineRunning /\ engineSound.buffer)))]_vars

\* C20: toggleIgnition with the flag set stops the engine loop and the
\* ignition source and clears the flag; with the flag clear it sets the flag
\* and starts the ignition one-shot, or the engine loop when no ignition clip
\* is loaded; so the flag alternates and nothing plays once it is cleared.
C20_ToggleAlternates ==
    [][ToggleStep =>
          /\ isEngineRunning' = ~isEngineRunning
          /\ IF isEngineRunning
             THEN /\ ~engineSound'.isPlaying /\ engineSound'.source = "none"
                  /\ ~ignitionSound'.isPlaying /\ ignitionSound'.source = "none"
             ELSE IF ignitionSound.buffer
             THEN ignitionSound'.isPlaying /\ ignitionSound'.source # "none"
             ELSE engineSound.buffer => engineSound'.isPlaying]_vars

\* a toggle has stopped the engine loop and the ignition source together
C20_Witness ==
    /\ lastOp = [op |-> "toggleIgnition", kind |-> "stopBoth", live |-> TRUE]
    /\ ~isEngineRunning
    /\ engineSound.buffer /\ ignitionSound.buffer

\* the engine clips of vehicle id the loader is loading
EngineLoadsOf(id) ==
    { i \in DOMAIN audioLoads : audioLoads[i].kind = "engine" /\ audioLoads[i].id = id }

\* C21: the engine clip of a vehicle is asked for at most once: no two loads
\* of it are in flight, and none is in flight once it is the clip loaded.
C21_EngineClipLoadedOnce ==
    \A id \in VehicleIds :
        /\ Cardinality(EngineLoadsOf(id)) <= 1
        /\ currentEngineSoundId = id => EngineLoadsOf(id) = {}

\* the mode: the menu when it is open, else the section shown
Mode == IF isMenuOpen THEN "menu" ELSE activeSection(activeSectionIndex).id

\* C22: while the mode is drive, walk or menu the orbit controls are
\* disabled, from the entry of the mode until it is left.
C22_ControlsDisabledOutsideOrbitModes ==
    Mode \in {"drive", "walk", "menu"} => ~controls.enabled

\* the Main View Effect has just run for a change of the mode
ModeChange == lastOp'.op = "view" /\ Mode' # Mode

\* C23: on every change of the mode into drive and out of drive, speed,
\* steering and heading are zero when the first frame of the new mode runs.
C23_DrivingStateResetAroundDrive ==
    [][ModeChange /\ (Mode = "drive" \/ Mode' = "drive") =>
          speed' = 0 /\ steering' = 0 /\ carAngle' = 0]_vars

\* C24: when the menu is left, the showroom group, the fleet group and the
\* hotspot group, which its entry hid, are visible again.
C24_MenuExitRestoresVisibility ==
    [][ModeChange /\ Mode = "menu" =>
          visible'.showroomGroup /\ visible'.fleetGroup /\ visible'.hotspotGroup]_vars

\* the vehicles of the fleet that have an anchor
Anchored == { id \in Ids(config.fleet) : id \in DOMAIN carMap }

\* C25: in showroom, cockpit, engineering and walk every vehicle is visible
\* once a frame of the mode has run, also the ones a drive before it hid.
C25_VehiclesVisibleAfterDrive ==
    lastOp.op = "frame" /\ thrown = {} /\ Mode \in {"showroom", "cockpit", "engineering", "walk"}
        => \A id \in Anchored : carVisible[id]

\* camera position, orbit target, enabled, distances, polar angle, panning
CameraConfiguration(V) == [camera |-> V.camera, controls |-> V.controls]

\* the stage init() leaves
NewStage ==
    [controls |-> NewControls, camera |-> [position |-> ShowroomCamera, moved |-> FALSE],
     visible |-> [menuGroup |-> FALSE, showroomGroup |-> TRUE, fleetGroup |-> TRUE,
                  charGroup |-> FALSE, hotspotGroup |-> TRUE],
     steering |-> 0, carAngle |-> 0]

\* the showroom has just been entered
ShowroomEntered == lastOp.op = "view" /\ isInitialized /\ Mode = "showroom"

\* C26: the camera and the orbit controls after an entry into showroom are
\* what a single direct entry into showroom gives, whatever modes came before
\* it (showroom, drive, showroom among them).
C26_ShowroomEntryIsTotal ==
    ShowroomEntered => CameraConfiguration(Stage) = CameraConfiguration(mainView(NewStage, 0, FALSE))

\* the showroom is entered after a drive whose frames moved the camera and
\* hid a vehicle, which no lineup frame has shown again yet
C26_Witness ==
    /\ ShowroomEntered
    /\ frame > 0
    /\ \E id \in Anchored : ~carVisible[id]

\* the points the mode shows of the active vehicle
shownPoints ==
    CASE Mode = "cockpit" -> pointsOf(activeCar(config), "interiorPoints")
      [] Mode = "engineering" -> pointsOf(activeCar(config), "techPoints")
      [] OTHER -> << >>

\* C27: after every change of the mode and of the active vehicle, the hotspot
\* group holds one marker per interior point of the active vehicle in the
\* cockpit, one per tech point in engineering, none in showroom, drive and
\* walk; it never holds a marker of a vehicle that is not the active one.
C27_MarkersFollowModeAndVehicle ==
    isInitialized /\ activeCar(config) # Undefined =>
        /\ \A i \in DOMAIN hotspotGroup.children :
               hotspotGroup.children[i].car = activeCar(config).id
        /\ ~isMenuOpen =>
               /\ Len(hotspotGroup.children) = Len(shownPoints)
               /\ \A i \in DOMAIN shownPoints : hotspotGroup.children[i].point = shownPoints[i]

\* the second vehicle is the active one and shows its one tech point in
\* engineering, while the first vehicle has an interior point
C27_Witness ==
    /\ Mode = "engineering"
    /\ config.activeCarIndex = 1
    /\ Len(pointsOf(config.fleet[1], "interiorPoints")) = 1
    /\ Len(pointsOf(activeCar(config), "interiorPoints")) = 0
    /\ Len(pointsOf(activeCar(config), "techPoints")) = 1
    /\ Len(hotspotGroup.children) = 1

\* the active vehicle is inside the square of the map
InsideMap == Abs(posX) <= MapBounds /\ Abs(posZ) <= MapBounds

\* the place the frame that has just run tried to move the vehicle to lies
\* outside the square
TentativeOutside ==
    LET v == driveSpeed(speed, input')
        a == carAngleOf(carAngle, v, steeringOf(steering, input'), input'.delta)
    IN \/ Abs(nextXOf(posX, a, v, input'.delta)) > MapBounds
       \/ Abs(nextZOf(posZ, a, v, input'.delta)) > MapBounds

\* C28: in drive mode x and z of the active vehicle stay within [-190, 190]
\* after every frame when they were inside when the drive began; a frame whose
\* next position would be outside leaves the position as it is and multiplies
\* the speed by -0.5.
C28_VehicleStaysInsideMap ==
    [][DriveFrameRan =>
          /\ InsideMap => InsideMap'
          /\ TentativeOutside =>
                 /\ posX' = posX /\ posZ' = posZ
                 /\ speed' = TruncDiv(-driveSpeed(speed, input'), 2)]_vars

\* a frame has bounced the vehicle off the side of the map: it was heading
\* across x, it is where it was, and it now rolls backward
C28_Witness ==
    /\ lastOp.op = "frame" /\ Mode = "drive"
    /\ speed < 0
    /\ \E v \in {-2 * speed, 1 - 2 * speed} :
           /\ Abs(nextXOf(posX, carAngle, v, input.delta)) > MapBounds
           /\ Abs(nextZOf(posZ, carAngle, v, input.delta)) <= MapBounds

\* C29: in a frame of the drive the throttle, the key axis plus joystick.y,
\* is within [-1, 1] after the clamp, and the steering input, the key axis
\* plus joystick.x, is within [-0.6, 0.6], whatever keys are held and wherever
\* the joystick is; steering moves toward that input.
C29_InputsAreClamped ==
    [][DriveFrameRan =>
          /\ -Unit <= throttleOf(input') /\ throttleOf(input') <= Unit
          /\ -MaxSteer <= steerInputOf(input') /\ steerInputOf(input') <= MaxSteer
          /\ \E target \in (-MaxSteer)..MaxSteer :
                 steering' = lerp(steering, target, input'.delta, SteerRate)]_vars

\* a frame of the drive with w held and the joystick pushed forward, a held
\* and the joystick pushed left: both sums are beyond their limits
C29_Witness ==
    /\ lastOp.op = "frame" /\ Mode = "drive"
    /\ input.key = 1 /\ input.joyY > 0
    /\ input.steer = 1 /\ input.joyX = -Unit
    /\ steering > 0

\* the frame that has just run was a frame of the drive with the left key
\* held and the joystick at x
LeftKeyFrame(x) ==
    /\ lastOp.op = "frame" /\ Mode = "drive"
    /\ input.steer = 1 /\ input.joyX = x /\ input.joyY = 0

\* C30 as stated: with the joystick at {x: 1, y: 0} and the left key held the
\* steering input of the frame is the largest steering magnitude, 0.6.
C30_JoystickRightAndLeftKeyClampToMax ==
    LeftKeyFrame(Unit) => Abs(steerInputOf(input)) = MaxSteer

\* C30: with the joystick at {x: 1, y: 0} and the left key held the two inputs
\* oppose each other and the steering input of the frame is 0; with the
\* joystick at {x: -1, y: 0} and the left key held their sum, 1.2, is clamped
\* to 0.6.
C30_OpposedInputsCancel ==
    /\ LeftKeyFrame(Unit) => steerInputOf(input) = 0
    /\ LeftKeyFrame(-Unit) => steerInputOf(input) = MaxSteer

\* a frame of a drive under way with the left key held and the joystick at
\* x = 1 has left the steering where it was, straight ahead
C30_Witness ==
    /\ LeftKeyFrame(Unit)
    /\ speed > 0 /\ steering = 0 /\ carAngle = 0

\* a frame of the walk block has just run
WalkFrameRan ==
    /\ lastOp'.op = "frame"
    /\ thrown' = {}
    /\ activeSection(activeSectionIndex).id = "walk"
    /\ ~isMenuOpen

\* C31: in walk mode the forward and the rotate input are clamped to [-1, 1]
\* before they scale the walk speed and the turn rate: no frame turns the
\* character by more than 3 rad/s * delta or moves it along an axis by more
\* than 5 units/s * delta, which is what one full input does.
C31_WalkInputsAreClamped ==
    [][WalkFrameRan =>
          /\ Abs(charRotation' - charRotation) <= 3 * input'.delta
          /\ Abs(charPos'[1] - charPos[1]) <= 5 * input'.delta
          /\ Abs(charPos'[2] - charPos[2]) <= 5 * input'.delta]_vars

\* carMap holds no anchor for the active vehicle, or there is no active vehicle
NoActiveAnchor ==
    \/ activeCar(config) = Undefined
    \/ MapGet(carMap, activeCar(config).id) = NoObj

\* C32: a frame in the drive section while the active vehicle has no anchor
\* in carMap does not throw and leaves speed, steering, heading, the position
\* of the vehicle and the camera as they were.
C32_DriveFrameWithoutAnchorIsSkipped ==
    [][(DriveFrameRan /\ NoActiveAnchor) =>
          /\ thrown' = {}
          /\ UNCHANGED << speed, steering, carAngle, posX, posZ, camera >>]_vars

\* a frame has just run while the menu was open
MenuFrameRan == lastOp'.op = "frame" /\ isMenuOpen

\* C33: a frame that runs while the menu is open changes the camera only:
\* speed, steering, heading, the positions and the visibility of the
\* vehicles, the position and the heading of the character, explodeFactor,
\* the tracked body parts and the playback rate of the engine stay as they
\* were.
C33_MenuFrameMovesCameraOnly ==
    [][MenuFrameRan =>
          UNCHANGED << speed, steering, carAngle, posX, posZ, carVisible, charPos, charRotation,
                       explodeFactor, partY, audioVars >>]_vars

\* a frame ran in the menu while the engine was playing and the vehicle had
\* the speed of the drive before
C33_Witness ==
    /\ lastOp.op = "frame" /\ isMenuOpen /\ camera.moved
    /\ isEngineRunning /\ engineSound.isPlaying /\ speed # 0

\* C35: the engine loop is playing only while the engine is flagged running,
\* also after an engine clip that was asked for while the engine ran arrives
\* when the ignition has been switched off.
C35_EngineLoopPlaysOnlyWhileRunning == engineSound.isPlaying => isEngineRunning

\* no engine clip is on its way
EngineClipsArrived == \A i \in DOMAIN audioLoads : audioLoads[i].kind # "engine"

\* C36: once every engine clip that was asked for has arrived, the buffer of
\* the engine loop and currentEngineSoundId are those of the active vehicle,
\* in whatever order the clips arrived.
C36_EngineClipIsTheActiveVehicles ==
    (/\ EngineClipsArrived
     /\ activeCar(config) # Undefined
     /\ HasUrl(activeCar(config), "driveSoundUrl"))
    => /\ currentEngineSoundId = activeCar(config).id
       /\ engineSound.clip = activeCar(config).id

LineupFrameRan ==
    /\ lastOp'.op = "frame"
    /\ thrown' = {}
    /\ ~isMenuOpen
    /\ activeSection(activeSectionIndex).id \notin {"drive", "walk"}

\* C39: in showroom, cockpit and engineering the vehicle that is driven toward
\* the pedestal, slot offset 0, is the vehicle activeCar() resolves to: every
\* frame of the lineup brings the anchor of the active vehicle closer to x = 0
\* or leaves it there, also when activeCarIndex is out of range.
C39_ActiveVehicleGoesToThePedestal ==
    [][(LineupFrameRan /\ ~NoActiveAnchor) => Abs(posX') <= Abs(posX)]_vars

\* the ids of the elements of a fleet, an element without an id counting as
\* the id undefined
IdsIn(fleet) ==
    { IF "id" \in DOMAIN fleet[i] THEN fleet[i].id ELSE "undefined" : i \in DOMAIN fleet }

\* C38: updateActiveCar changes the vehicle activeCar() resolves to and no
\* other, and leaves the number of vehicles and the set of their ids as they
\* were, also when activeCarIndex is outside the index range of the fleet.
C38_UpdateActiveCarKeepsTheFleet ==
    [][lastOp'.op = "updateActiveCar" =>
          /\ Len(config'.fleet) = Len(config.fleet)
          /\ IdsIn(config'.fleet) = IdsIn(config.fleet)
          /\ \A i \in DOMAIN config.fleet :
                 config'.fleet[i] # config.fleet[i] => config.fleet[i] = activeCar(config)]_vars

\* the step before was a local change of the configuration, made while a
\* poll was waiting for a response
LocalChangeInFlight == lastOp.op = "publish" /\ pollResponse.stage # "idle"

\* the step merges a response of the poll
ResponseArrives == lastOp'.op \in {"pollSettings", "pollCars"}

\* C37: a local change made while a poll is in flight is not overwritten when
\* the response of that poll arrives: the merge of the response leaves the
\* active index and the fleet that were just set locally as they are.
C37_PollKeepsLocalChanges ==
    [][(LocalChangeInFlight /\ ResponseArrives) =>
          /\ config'.activeCarIndex = config.activeCarIndex
          /\ config'.fleet = config.fleet]_vars

====
